---- MODULE Spec2Model ----
(***************************************************************************)
(* The event synchronization pipeline of lfx-v2-survey-service: the        *)
(* JetStream consumer callback (kvMessageHandler), the key router          *)
(* (kvHandler, handleKVPut, handleKVDelete), the survey and survey         *)
(* response handlers with their record transformers, the v1-mappings       *)
(* store used to pick created/updated, the NATS publisher and the          *)
(* transient-error classifier.                                             *)
(*                                                                         *)
(* One consumer callback is followed step by step: every call that can     *)
(* fail or that changes state outside the process (mapping store get, the  *)
(* two publishes, the mapping store put/delete, the ack/nak) is a step of  *)
(* its own, in the order of the code.                                      *)
(***************************************************************************)
EXTENDS Integers, Sequences, FiniteSets, TLC

VARIABLES
    feed,       \* the change feed: per notification its content, delivery count and status
    inst,       \* per consumer instance: position in the callback and the callback's locals
    mappings,   \* the v1-mappings KV bucket: the set of keys it holds
    published,  \* everything published downstream, in publish order
    faults,     \* the mapping keys on which a store operation has failed so far
    events,     \* number of deliveries made so far (bounds the exploration)
    processor   \* the event processor: running, cancelled (its context), stopped (its consumer)

vars == <<feed, inst, mappings, published, faults, events, processor>>

----------------------------------------------------------------------------
(* Bounds of the exploration *)

\* total number of deliveries (first deliveries and redeliveries) explored
MaxEvents == 2

(* Program constants *)

\* main.go: MaxDeliver: 3
MaxDeliver == 3

V1ObjectsBucket == "v1-objects"
IndexSurveySubject == "lfx.index.survey"
IndexSurveyResponseSubject == "lfx.index.survey_response"
UpdateAccessSubject == "lfx.fga-sync.update_access"
DeleteAccessSubject == "lfx.fga-sync.delete_access"
ActionCreated == "created"
ActionUpdated == "updated"
ActionDeleted == "deleted"

----------------------------------------------------------------------------
(* Strings: Go's strings.Contains, strings.SplitN(key, ".", 2) *)

\* strings.Contains(s, substr)
Contains(s, substr) ==
    \E i \in 1..(Len(s) - Len(substr) + 1) : SubSeq(s, i, i + Len(substr) - 1) = substr

\* position of the first "." of s, 0 when there is none
FirstDot(s) ==
    IF \E i \in 1..Len(s) : SubSeq(s, i, i) = "."
    THEN CHOOSE i \in 1..Len(s) :
            /\ SubSeq(s, i, i) = "."
            /\ \A j \in 1..(i - 1) : SubSeq(s, j, j) # "."
    ELSE 0

\* (mutant of SplitN2) the text is split at every ".", and the first two parts
\* are kept
SplitN2_EverySeparator(s) ==
    IF FirstDot(s) = 0 THEN <<s>>
    ELSE LET rest == SubSeq(s, FirstDot(s) + 1, Len(s))
         IN  <<SubSeq(s, 1, FirstDot(s) - 1),
               IF FirstDot(rest) = 0 THEN rest ELSE SubSeq(rest, 1, FirstDot(rest) - 1)>>

\* strings.SplitN(s, ".", 2): one part when s has no ".", else the text before
\* the first "." and everything after it
SplitN2(s) ==
    IF FirstDot(s) = 0 THEN <<s>>
    ELSE <<SubSeq(s, 1, FirstDot(s) - 1), SubSeq(s, FirstDot(s) + 1, Len(s))>>

\* errors: <<>> is nil, <<text>> an error whose Error() is text
NilErr == <<>>
Err(text) == <<text>>
\* fmt.Errorf(prefix + ": %w", err)
Wrap(prefix, err) == Err(prefix \o ": " \o err[1])

----------------------------------------------------------------------------
(* The legacy record carried by a put, as far as the transformers read it *)

\* a JSON value found in a numeric field
JNull == [t |-> "null", s |-> "", n |-> ""]
JStr(str) == [t |-> "string", s |-> str, n |-> ""]
JNum(num) == [t |-> "number", s |-> "", n |-> num]  \* num: the literal, an integer
JBool == [t |-> "bool", s |-> "", n |-> ""]

DigitChars == "0123456789"
IsDigit(c) == \E d \in 1..10 : SubSeq(DigitChars, d, d) = c
DigitVal(c) == (CHOOSE d \in 1..10 : SubSeq(DigitChars, d, d) = c) - 1

RECURSIVE DigitsVal(_, _)
DigitsVal(s, acc) ==
    IF Len(s) = 0 THEN acc
    ELSE DigitsVal(SubSeq(s, 2, Len(s)), acc * 10 + DigitVal(SubSeq(s, 1, 1)))

\* A Go int (64 bits) is written as its decimal text: "0", "8", "-12". The
\* integers of the model checker are narrower than the program's.

\* digits without their leading zeros
RECURSIVE StripZeros(_)
StripZeros(digits) ==
    IF Len(digits) > 1 /\ SubSeq(digits, 1, 1) = "0"
    THEN StripZeros(SubSeq(digits, 2, Len(digits)))
    ELSE digits

\* the int with this sign and these digits
IntText(negative, digits) ==
    IF StripZeros(digits) = "0" THEN "0"
    ELSE IF negative THEN "-" \o StripZeros(digits)
    ELSE StripZeros(digits)

IsNegative(text) == Len(text) > 0 /\ SubSeq(text, 1, 1) = "-"
Magnitude(text) == IF IsNegative(text) THEN SubSeq(text, 2, Len(text)) ELSE text

\* a < b, for digits without leading zeros
MagLess(a, b) ==
    \/ Len(a) < Len(b)
    \/ /\ Len(a) = Len(b)
       /\ \E k \in 1..Len(a) :
            /\ SubSeq(a, 1, k - 1) = SubSeq(b, 1, k - 1)
            /\ DigitVal(SubSeq(a, k, k)) < DigitVal(SubSeq(b, k, k))

\* math.MaxInt64 and the magnitude of math.MinInt64
MaxInt64 == "9223372036854775807"
MinInt64Magnitude == "9223372036854775808"

\* strconv.Atoi: an optional sign followed by at least one decimal digit, of a
\* value an int holds
Atoi(s) ==
    LET signed == Len(s) > 0 /\ SubSeq(s, 1, 1) \in {"+", "-"}
        digits == IF signed THEN SubSeq(s, 2, Len(s)) ELSE s
    IN  IF Len(digits) = 0 \/ \E i \in 1..Len(digits) : ~IsDigit(SubSeq(digits, i, i))
        THEN [val |-> "0", err |-> Err("strconv.Atoi: parsing \"" \o s \o "\": invalid syntax")]
        ELSE IF MagLess(IF IsNegative(s) THEN MinInt64Magnitude ELSE MaxInt64,
                        StripZeros(digits))
        THEN [val |-> "0",
              err |-> Err("strconv.Atoi: parsing \"" \o s \o "\": value out of range")]
        ELSE [val |-> IntText(IsNegative(s), digits), err |-> NilErr]

\* the decimal text of a natural number
RECURSIVE ToText(_)
ToText(n) ==
    IF n < 10 THEN SubSeq(DigitChars, n + 1, n + 1)
    ELSE ToText(n \div 10) \o SubSeq(DigitChars, (n % 10) + 1, (n % 10) + 1)

\* text with zeros in front, to eight digits
RECURSIVE Pad8(_)
Pad8(text) == IF Len(text) >= 8 THEN text ELSE Pad8("0" \o text)

\* 2^53: up to it a float64 holds every integer
Exact53 == "9007199254740992"

\* encoding/json decodes a number into a float64: the integer the float64
\* holds for an integer literal of this magnitude. Above 2^53 a float64 holds
\* the even integers only (up to 2^54), an odd one is rounded to its neighbour
\* that is a multiple of 4. Defined for magnitudes of at most sixteen digits.
RoundToFloat64(m) ==
    IF ~MagLess(Exact53, m) THEN m
    ELSE CASE Len(m) = 16 ->
        LET hi == DigitsVal(SubSeq(m, 1, 8), 0)
            lo == DigitsVal(SubSeq(m, 9, 16), 0)
        IN  IF lo % 2 = 0 THEN m
            ELSE IF lo % 4 = 1 THEN ToText(hi) \o Pad8(ToText(lo - 1))
            ELSE IF lo = 99999999 THEN ToText(hi + 1) \o "00000000"
            ELSE ToText(hi) \o Pad8(ToText(lo + 1))

\* int(val) of the float64 an integer literal decodes to
Float64ToInt(literal) ==
    IntText(IsNegative(literal), RoundToFloat64(StripZeros(Magnitude(literal))))

\* the convertToInt helper of the UnmarshalJSON methods
convertToInt_BooleanIsZero(v) ==
    CASE v.t = "null" -> [val |-> "0", err |-> NilErr]
      [] v.t = "string" -> IF v.s = "" THEN [val |-> "0", err |-> NilErr] ELSE Atoi(v.s)
      [] v.t = "number" -> [val |-> Float64ToInt(v.n), err |-> NilErr]
      [] OTHER -> [val |-> "0", err |-> NilErr]

convertToInt(v) ==
    CASE v.t = "null" -> [val |-> "0", err |-> NilErr]
      [] v.t = "string" -> IF v.s = "" THEN [val |-> "0", err |-> NilErr] ELSE Atoi(v.s)
      [] v.t = "number" -> [val |-> Float64ToInt(v.n), err |-> NilErr]
      [] OTHER -> [val |-> "0", err |-> Err("invalid type for numeric field")]

\* one entry of a survey's committees array
NumLink(cid, pid, nps) == [committee_id |-> cid, project_id |-> pid, nps_value |-> nps]
Link(cid, pid) == NumLink(cid, pid, JNull)

\* the body of a notification. decodes: json.Unmarshal into a map succeeds.
\* A survey reads id, nps_value and committees; a survey response reads id,
\* nps_value, project_id (project.id), committee_id, username and survey_id.
Body(id, nps, committees, pid, cid, user, sid) ==
    [decodes |-> TRUE, id |-> id, nps_value |-> nps, committees |-> committees,
     project_id |-> pid, committee_id |-> cid, username |-> user, survey_id |-> sid]

\* a body that is no JSON object (also the empty body of a delete or purge)
Undecodable ==
    [decodes |-> FALSE, id |-> "", nps_value |-> JNull, committees |-> <<>>,
     project_id |-> "", committee_id |-> "", username |-> "", survey_id |-> ""]

\* the current-generation identifier the mapping service holds for a legacy one
V2Of(id) == "v2-" \o id

\* IDMapper.MapCommitteeV1ToV2 / MapProjectV1ToV2, ok: the lookup succeeded
MapV1ToV2(id, ok) ==
    IF ok THEN [uid |-> V2Of(id), err |-> NilErr]
    ELSE [uid |-> "", err |-> Err("failed to lookup ID mapping")]

\* the outcomes of the lookups one transformation makes: for survey link k,
\* res.links[k].c and .p; for a survey response res.project and res.committee
MapperOutcomes(n) ==
    [links : [1..n -> [c : BOOLEAN, p : BOOLEAN]], project : BOOLEAN, committee : BOOLEAN]

\* (mutant of committeeData) a failed committee lookup leaves the link without
\* its project UID too
committeeData_FailureEmptiesLink(link, r) ==
    [CommitteeID |-> link.committee_id,
     ProjectID |-> link.project_id,
     NPSValue |-> convertToInt(link.nps_value).val,
     CommitteeUID |-> IF link.committee_id # "" /\ MapV1ToV2(link.committee_id, r.c).err = NilErr
                      THEN MapV1ToV2(link.committee_id, r.c).uid ELSE "",
     ProjectUID |-> IF link.committee_id # "" /\ MapV1ToV2(link.committee_id, r.c).err # NilErr
                    THEN ""
                    ELSE IF link.project_id # "" /\ MapV1ToV2(link.project_id, r.p).err = NilErr
                    THEN MapV1ToV2(link.project_id, r.p).uid ELSE ""]

\* survey_event_handler.go convertMapToSurveyData, the committees loop
committeeData(link, r) ==
    [CommitteeID |-> link.committee_id,
     ProjectID |-> link.project_id,
     NPSValue |-> convertToInt(link.nps_value).val,
     CommitteeUID |-> IF link.committee_id # "" /\ MapV1ToV2(link.committee_id, r.c).err = NilErr
                      THEN MapV1ToV2(link.committee_id, r.c).uid ELSE "",
     ProjectUID |-> IF link.project_id # "" /\ MapV1ToV2(link.project_id, r.p).err = NilErr
                    THEN MapV1ToV2(link.project_id, r.p).uid ELSE ""]

\* one call of the Identifier Mapper: for which entry of the committees array
\* (0: the fields of a survey response), of which kind, with which legacy
\* identifier, and whether it returned an error
Call(k, kind, id, ok) == [link |-> k, kind |-> kind, id |-> id, err |-> MapV1ToV2(id, ok).err]

\* the calls the committees loop makes for one entry, in order
committeeCalls(k, link, r) ==
    (IF link.committee_id # "" THEN <<Call(k, "committee", link.committee_id, r.c)>> ELSE <<>>)
        \o (IF link.project_id # "" THEN <<Call(k, "project", link.project_id, r.p)>> ELSE <<>>)

\* the calls the committees loop makes from entry k on
RECURSIVE surveyCalls(_, _, _)
surveyCalls(committees, res, k) ==
    IF k > Len(committees) THEN <<>>
    ELSE committeeCalls(k, committees[k], res.links[k]) \o surveyCalls(committees, res, k + 1)

\* the calls convertMapToSurveyResponseData makes: the project, then the
\* committee
responseCalls(body, res) ==
    (IF body.project_id # "" THEN <<Call(0, "project", body.project_id, res.project)>> ELSE <<>>)
        \o (IF body.committee_id # ""
            THEN <<Call(0, "committee", body.committee_id, res.committee)>> ELSE <<>>)

NoSurvey == [UID |-> "", NPSValue |-> "0", Committees |-> <<>>]

\* convertMapToSurveyData: SurveyDBRaw.UnmarshalJSON, then the field copy and
\* the identifier resolution
convertMapToSurveyData(body, res) ==
    IF \E k \in 1..Len(body.committees) : convertToInt(body.committees[k].nps_value).err # NilErr
    THEN LET k == CHOOSE j \in 1..Len(body.committees) :
                    /\ convertToInt(body.committees[j].nps_value).err # NilErr
                    /\ \A l \in 1..(j - 1) :
                          convertToInt(body.committees[l].nps_value).err = NilErr
         IN  [err |-> Wrap("failed to unmarshal JSON into SurveyDBRaw",
                           Wrap("failed to convert nps_value",
                                convertToInt(body.committees[k].nps_value).err)),
              data |-> NoSurvey, calls |-> <<>>]
    ELSE IF convertToInt(body.nps_value).err # NilErr
    THEN [err |-> Wrap("failed to unmarshal JSON into SurveyDBRaw",
                       Wrap("failed to convert nps_value", convertToInt(body.nps_value).err)),
          data |-> NoSurvey, calls |-> <<>>]
    ELSE [err |-> NilErr,
          data |-> [UID |-> body.id,
                    NPSValue |-> convertToInt(body.nps_value).val,
                    Committees |-> [k \in 1..Len(body.committees) |->
                                       committeeData(body.committees[k], res.links[k])]],
          calls |-> surveyCalls(body.committees, res, 1)]

\* (mutant of hasValidParent) any link counts as a parent, resolved or not
hasValidParent_AnyLink(surveyData) == Len(surveyData.Committees) > 0

\* handleSurveyUpdate, the hasValidParent loop
hasValidParent(surveyData) ==
    \E k \in 1..Len(surveyData.Committees) :
        surveyData.Committees[k].CommitteeUID # "" \/ surveyData.Committees[k].ProjectUID # ""

NoResponse == [UID |-> "", NPSValue |-> "0", SurveyUID |-> "", Username |-> "",
               ProjectID |-> "", ProjectUID |-> "", CommitteeID |-> "", CommitteeUID |-> ""]

\* survey_response_event_handler.go convertMapToSurveyResponseData
convertMapToSurveyResponseData(body, res) ==
    IF convertToInt(body.nps_value).err # NilErr
    THEN [err |-> Wrap("failed to unmarshal JSON into SurveyResponseDBRaw",
                       Wrap("failed to convert nps_value", convertToInt(body.nps_value).err)),
          data |-> NoResponse, calls |-> <<>>]
    ELSE [err |-> NilErr,
          data |-> [UID |-> body.id,
                    NPSValue |-> convertToInt(body.nps_value).val,
                    SurveyUID |-> body.survey_id,
                    Username |-> body.username,
                    ProjectID |-> body.project_id,
                    ProjectUID |-> IF body.project_id # ""
                                      /\ MapV1ToV2(body.project_id, res.project).err = NilErr
                                   THEN MapV1ToV2(body.project_id, res.project).uid ELSE "",
                    CommitteeID |-> body.committee_id,
                    CommitteeUID |-> IF body.committee_id # ""
                                        /\ MapV1ToV2(body.committee_id, res.committee).err = NilErr
                                     THEN MapV1ToV2(body.committee_id, res.committee).uid ELSE ""],
          calls |-> responseCalls(body, res)]


----------------------------------------------------------------------------
(* The notifications the change feed can carry *)

\* keys of the v1-objects bucket: a survey, a survey response and a key of
\* another entity type; for deletes also a key with no separator
PutKeys == {"itx-surveys.s1", "itx-survey-responses.s1", "itx-meetings.s1"}
DeleteKeys == PutKeys \cup {"itx-surveys"}

BodyIds == {"", "s1"}
CommitteeLists == {<<>>, <<Link("c1", "p1")>>, <<Link("c1", ""), Link("", "p1")>>}

SurveyBodies ==
    {Body(id, JStr("8"), cs, "", "", "", "") : id \in BodyIds, cs \in CommitteeLists}
        \cup {Body("s1", JStr("n/a"), <<Link("c1", "p1")>>, "", "", "", "")}

ResponseBodies ==
    {Body(id, JNum("8"), <<>>, pid, "c1", "bob", "s1") : id \in BodyIds, pid \in {"", "p1"}}
        \cup {Body("s1", JBool, <<>>, "p1", "c1", "bob", "s1")}

PutBodies == SurveyBodies \cup ResponseBodies \cup {Undecodable}

\* the bodies found under a key: those of its entity type, or bytes that do
\* not decode
BodiesOf(k) ==
    {Undecodable} \cup
        (CASE SplitN2(k)[1] = "itx-surveys" -> SurveyBodies
           [] SplitN2(k)[1] = "itx-survey-responses" -> ResponseBodies
           [] OTHER -> {Body("s1", JNum("8"), <<>>, "p1", "c1", "bob", "s1")})

\* a put carries a body, a delete or purge carries none
Notifications ==
    UNION {{[subject |-> "$KV." \o V1ObjectsBucket \o "." \o k, opHeader |-> "", body |-> b] :
                b \in BodiesOf(k)} : k \in PutKeys}
    \cup
    {[subject |-> "$KV." \o V1ObjectsBucket \o "." \o k, opHeader |-> h, body |-> Undecodable] :
        k \in DeleteKeys, h \in {"DEL", "PURGE"}}

NoMsg == [subject |-> "", opHeader |-> "", body |-> Undecodable]

\* what conn.Publish can fail with
PublishErrors ==
    {"nats: timeout", "nats: connection closed", "503 service unavailable",
     "context deadline exceeded", "nats: maximum payload exceeded"}

PublishOutcomes == {NilErr} \cup {Err(t) : t \in PublishErrors}

----------------------------------------------------------------------------
(* kv_handler.go *)

KVPrefix == "$KV." \o V1ObjectsBucket \o "."

\* kvMessageHandler: the key is the subject after "$KV.v1-objects."
KeyOf(subject) ==
    IF Len(subject) > Len(KVPrefix)
    THEN SubSeq(subject, Len(KVPrefix) + 1, Len(subject))
    ELSE ""

\* (mutant of OperationOf) every header value but PURGE is a delete
OperationOf_PutOnlyWithoutHeader(opHeader) ==
    CASE opHeader = "" -> "KeyValuePut"
      [] opHeader = "PURGE" -> "KeyValuePurge"
      [] OTHER -> "KeyValueDelete"

\* kvMessageHandler: the operation named by the KV-Operation header
OperationOf(opHeader) ==
    CASE opHeader = "DEL" -> "KeyValueDelete"
      [] opHeader = "PURGE" -> "KeyValuePurge"
      [] OTHER -> "KeyValuePut"

\* (mutant of isTransientError) an expired deadline is not looked for
isTransientError_NoDeadline(err) ==
    IF err = NilErr THEN FALSE
    ELSE \/ Contains(err[1], "timeout")
         \/ Contains(err[1], "connection")
         \/ Contains(err[1], "unavailable")

\* isTransientError
isTransientError(err) ==
    IF err = NilErr THEN FALSE
    ELSE \/ Contains(err[1], "timeout")
         \/ Contains(err[1], "connection")
         \/ Contains(err[1], "unavailable")
         \/ Contains(err[1], "deadline")

\* the key of the v1-mappings entry of an entity
\* (mutant of mappingKey) the entries of both kinds are kept under survey.
mappingKey_OneNamespace(entity, uid) == "survey." \o uid

\* (mutant of mappingKey) the entry is kept under the uid alone
mappingKey_UidAlone(entity, uid) == uid

\* the key of an entity's entry in the mapping store
mappingKey(entity, uid) == entity \o "." \o uid

\* a context.Context as the set of its <<key, value>> pairs; a key is a pair
\* <<type, text>>, since Value finds a value only under a key of the same type
\* and text. The context of the event processor carries no value.
NoValues == {}
StringKey(text) == <<"string", text>>
ContextKey(text) == <<"contextKey", text>>

\* ctx.Value(key).(string): the values found
Value(ctx, key) == {p[2] : p \in {q \in ctx : q[1] = key}}

\* buildHeaders
buildHeaders(ctx) ==
    (IF Value(ctx, StringKey("authorization")) # {}
     THEN {<<"authorization", v>> : v \in Value(ctx, StringKey("authorization"))}
     ELSE {<<"authorization", "Bearer survey-service">>})
    \cup {<<"x-on-behalf-of", v>> : v \in Value(ctx, StringKey("principal"))}

\* GenericFGAMessage has no header block, and conn.Publish sends none
NoHeaders == {}

\* append ref to refs unless refs has it
AppendNew(refs, ref) ==
    IF \E k \in 1..Len(refs) : refs[k] = ref THEN refs ELSE Append(refs, ref)

\* sendSurveyIndexerMessage: parentRefs after the first n committees
RECURSIVE surveyParentRefs(_, _)
surveyParentRefs(committees, n) ==
    IF n = 0 THEN <<>>
    ELSE LET before == surveyParentRefs(committees, n - 1)
             withCommittee == IF committees[n].CommitteeUID # ""
                              THEN Append(before, "committee:" \o committees[n].CommitteeUID)
                              ELSE before
         IN  IF committees[n].ProjectUID # ""
             THEN AppendNew(withCommittee, "project:" \o committees[n].ProjectUID)
             ELSE withCommittee

\* sendSurveyAccessMessage: committeeRefs after the first n committees
RECURSIVE committeeRefs(_, _)
committeeRefs(committees, n) ==
    IF n = 0 THEN <<>>
    ELSE IF committees[n].CommitteeUID # ""
         THEN Append(committeeRefs(committees, n - 1), committees[n].CommitteeUID)
         ELSE committeeRefs(committees, n - 1)

\* sendSurveyAccessMessage: projectRefs after the first n committees
RECURSIVE projectRefs(_, _)
projectRefs(committees, n) ==
    IF n = 0 THEN <<>>
    ELSE IF committees[n].ProjectUID # ""
         THEN AppendNew(projectRefs(committees, n - 1), committees[n].ProjectUID)
         ELSE projectRefs(committees, n - 1)

\* a map[string][]string as the set of its <<key, list>> pairs: a key is set
\* only when its list has an element
MapEntry(key, list) == IF list = <<>> THEN {} ELSE {<<key, list>>}

\* the ParentRefs of the IndexingConfig of an entity
parentRefsOf(entity, data) ==
    IF entity = "survey" THEN surveyParentRefs(data.Committees, Len(data.Committees))
    ELSE (IF data.ProjectUID # "" THEN <<"project:" \o data.ProjectUID>> ELSE <<>>)
         \o (IF data.SurveyUID # "" THEN <<"survey:" \o data.SurveyUID>> ELSE <<>>)

\* the references map of an update_access message of an entity
referencesOf(entity, data) ==
    IF entity = "survey"
    THEN MapEntry("committee", committeeRefs(data.Committees, Len(data.Committees)))
         \cup MapEntry("project", projectRefs(data.Committees, Len(data.Committees)))
    ELSE MapEntry("project", IF data.ProjectUID # "" THEN <<data.ProjectUID>> ELSE <<>>)
         \cup MapEntry("survey", IF data.SurveyUID # "" THEN <<data.SurveyUID>> ELSE <<>>)

\* the relations map of an update_access message of an entity: a survey's
\* message has none
relationsOf(entity, data) ==
    IF entity = "survey" THEN {}
    ELSE MapEntry("writer", IF data.Username # "" THEN <<data.Username>> ELSE <<>>)
         \cup MapEntry("viewer", IF data.Username # "" THEN <<data.Username>> ELSE <<>>)

\* the callback's locals before a notification is taken. Bookkeeping next to
\* the code's own variables: nid and attempt name the delivery, before is the
\* content of the mapping store when the delivery began, outcome names the
\* return statement the handler left by.
Idle ==
    [pc |-> "idle", ctx |-> NoValues, nid |-> 0, msg |-> NoMsg, key |-> "", operation |-> "",
     attempt |-> 0, before |-> {}, entity |-> "", outcome |-> "", data |-> NoSurvey, lookups |-> <<>>,
     getErr |-> FALSE, action |-> "", pubErr |-> NilErr, storeErr |-> FALSE,
     shouldRetry |-> FALSE, acks |-> 0, naks |-> 0]

Instances == {1}

Init ==
    /\ feed = <<>>
    /\ inst = [i \in Instances |-> Idle]
    /\ mappings = {}
    /\ published = <<>>
    /\ faults = {}
    /\ events = 0
    /\ processor = "running"

\* kvMessageHandler up to the call of kvHandler, for delivery attempt of
\* notification nid
Begin(i, nid, attempt, msg) ==
    inst' = [inst EXCEPT ![i] =
                [Idle EXCEPT !.pc = "kvHandler", !.nid = nid, !.msg = msg,
                             !.attempt = attempt, !.before = mappings,
                             !.key = KeyOf(msg.subject),
                             !.operation = OperationOf(msg.opHeader)]]

\* (mutant of CallbackFree) a callback starts whatever the previous one is
\* doing
CallbackFree_Always(i) == TRUE

\* Consume calls the callback for one message at a time: the next call is
\* made when the previous one has returned
CallbackFree(i) == inst[i].pc \in {"idle", "done"}

\* the broker delivers a notification for the first time
Deliver(i) ==
    /\ CallbackFree(i)
    /\ processor # "stopped"
    /\ events < MaxEvents
    /\ \E n \in Notifications :
        /\ feed' = Append(feed, [msg |-> n, deliveries |-> 1, status |-> "inflight"])
        /\ Begin(i, Len(feed) + 1, 1, n)
    /\ events' = events + 1
    /\ UNCHANGED <<mappings, published, faults, processor>>

\* the broker redelivers a negatively acknowledged notification it has not
\* given up
Redelivery(i) ==
    /\ CallbackFree(i)
    /\ processor # "stopped"
    /\ \E nid \in 1..Len(feed) :
        /\ feed[nid].status = "nakked"
        /\ feed' = [feed EXCEPT ![nid].deliveries = @ + 1, ![nid].status = "inflight"]
        /\ Begin(i, nid, feed[nid].deliveries + 1, feed[nid].msg)
    /\ UNCHANGED <<mappings, published, faults, processor>>

\* a redelivery, counted in the deliveries the exploration allows
Redeliver(i) ==
    /\ events < MaxEvents
    /\ Redelivery(i)
    /\ events' = events + 1

\* (mutant of Reject) a rejected record is reported as worth retrying
Reject_Retry(i, entity, why, data, calls) ==
    inst' = [inst EXCEPT ![i].pc = "ack", ![i].entity = entity, ![i].outcome = why,
                         ![i].data = data, ![i].lookups = calls, ![i].shouldRetry = TRUE]

\* the handler returns before publishing: should-retry is false
Reject(i, entity, why, data, calls) ==
    inst' = [inst EXCEPT ![i].pc = "ack", ![i].entity = entity, ![i].outcome = why,
                         ![i].data = data, ![i].lookups = calls, ![i].shouldRetry = FALSE]

\* the entity kind a key prefix routes to ("" : none)
EntityOf(prefix) ==
    CASE prefix = "itx-surveys" -> "survey"
      [] prefix = "itx-survey-responses" -> "survey_response"
      [] OTHER -> ""

\* sendSurveyAccessMessage: the committee and project references it collects
surveyReferences(surveyData) ==
    {<<"committee", surveyData.Committees[k].CommitteeUID>> :
        k \in {j \in 1..Len(surveyData.Committees) : surveyData.Committees[j].CommitteeUID # ""}}
    \cup
    {<<"project", surveyData.Committees[k].ProjectUID>> :
        k \in {j \in 1..Len(surveyData.Committees) : surveyData.Committees[j].ProjectUID # ""}}

\* (mutant of responseReferences) the relations are left out
responseReferences_WithoutRelations(responseData) ==
    {<<"project", responseData.ProjectUID>> : u \in {responseData.ProjectUID} \ {""}}
    \cup {<<"survey", responseData.SurveyUID>> : u \in {responseData.SurveyUID} \ {""}}

\* sendSurveyResponseAccessMessage: the relations and references it collects
responseReferences(responseData) ==
    {<<"writer", responseData.Username>> : u \in {responseData.Username} \ {""}}
    \cup {<<"viewer", responseData.Username>> : u \in {responseData.Username} \ {""}}
    \cup {<<"project", responseData.ProjectUID>> : u \in {responseData.ProjectUID} \ {""}}
    \cup {<<"survey", responseData.SurveyUID>> : u \in {responseData.SurveyUID} \ {""}}

\* the handler goes on to the mapping lookup with the transformed record
Accept(i, entity, data, calls) ==
    inst' = [inst EXCEPT ![i].pc = "get", ![i].entity = entity, ![i].outcome = "valid",
                         ![i].data = data, ![i].lookups = calls]

\* (mutant of handleSurveyUpdate) a survey without a resolved parent is
\* published too
handleSurveyUpdate_AnyParent(i, body) ==
    \E res \in MapperOutcomes(Len(body.committees)) :
        LET conv == convertMapToSurveyData(body, res) IN
        IF conv.err # NilErr THEN Reject(i, "survey", "convert_error", conv.data, conv.calls)
        ELSE IF conv.data.UID = "" THEN Reject(i, "survey", "empty_uid", conv.data, conv.calls)
        ELSE Accept(i, "survey", conv.data, conv.calls)

\* handleSurveyUpdate up to the mapping lookup
handleSurveyUpdate(i, body) ==
    \E res \in MapperOutcomes(Len(body.committees)) :
        LET conv == convertMapToSurveyData(body, res) IN
        IF conv.err # NilErr THEN Reject(i, "survey", "convert_error", conv.data, conv.calls)
        ELSE IF conv.data.UID = "" THEN Reject(i, "survey", "empty_uid", conv.data, conv.calls)
        ELSE IF ~hasValidParent(conv.data) THEN Reject(i, "survey", "orphan", conv.data, conv.calls)
        ELSE Accept(i, "survey", conv.data, conv.calls)

\* (mutant of handleSurveyResponseUpdate) a response whose committee did not
\* resolve is rejected too
handleSurveyResponseUpdate_NeedsCommittee(i, body) ==
    \E res \in MapperOutcomes(0) :
        LET conv == convertMapToSurveyResponseData(body, res) IN
        IF conv.err # NilErr THEN Reject(i, "survey_response", "convert_error", conv.data, conv.calls)
        ELSE IF conv.data.UID = "" THEN Reject(i, "survey_response", "empty_uid", conv.data, conv.calls)
        ELSE IF conv.data.ProjectUID = "" \/ conv.data.CommitteeUID = ""
        THEN Reject(i, "survey_response", "orphan", conv.data, conv.calls)
        ELSE Accept(i, "survey_response", conv.data, conv.calls)

\* handleSurveyResponseUpdate up to the mapping lookup
handleSurveyResponseUpdate(i, body) ==
    \E res \in MapperOutcomes(0) :
        LET conv == convertMapToSurveyResponseData(body, res) IN
        IF conv.err # NilErr THEN Reject(i, "survey_response", "convert_error", conv.data, conv.calls)
        ELSE IF conv.data.UID = "" THEN Reject(i, "survey_response", "empty_uid", conv.data, conv.calls)
        ELSE IF conv.data.ProjectUID = "" THEN Reject(i, "survey_response", "orphan", conv.data, conv.calls)
        ELSE Accept(i, "survey_response", conv.data, conv.calls)

\* (mutant of handleKVPut) a key of another entity type is handled as a survey
handleKVPut_RoutesEveryKey(i) ==
    /\ inst[i].pc = "kvHandler"
    /\ inst[i].operation = "KeyValuePut"
    /\ LET body == inst[i].msg.body
           prefix == SplitN2(inst[i].key)[1]
       IN  IF ~body.decodes THEN Reject(i, "", "bad_json", NoSurvey, <<>>)
           ELSE IF prefix = "itx-survey-responses" THEN handleSurveyResponseUpdate(i, body)
           ELSE handleSurveyUpdate(i, body)
    /\ UNCHANGED <<feed, mappings, published, faults, events, processor>>

\* kvHandler -> handleKVPut: decode the body, route on the key prefix
handleKVPut(i) ==
    /\ inst[i].pc = "kvHandler"
    /\ inst[i].operation = "KeyValuePut"
    /\ LET body == inst[i].msg.body
           prefix == SplitN2(inst[i].key)[1]
       IN  IF ~body.decodes THEN Reject(i, "", "bad_json", NoSurvey, <<>>)
           ELSE IF prefix = "itx-surveys" THEN handleSurveyUpdate(i, body)
           ELSE IF prefix = "itx-survey-responses" THEN handleSurveyResponseUpdate(i, body)
           ELSE Reject(i, "", "irrelevant", NoSurvey, <<>>)
    /\ UNCHANGED <<feed, mappings, published, faults, events, processor>>

\* (mutant of handleKVDelete) the delete of an entity without a mapping entry
\* is skipped
handleKVDelete_SkipUnseen(i) ==
    /\ inst[i].pc = "kvHandler"
    /\ inst[i].operation \in {"KeyValueDelete", "KeyValuePurge"}
    /\ LET parts == SplitN2(inst[i].key) IN
       IF Len(parts) < 2 THEN Reject(i, "", "bad_key", NoSurvey, <<>>)
       ELSE IF EntityOf(parts[1]) = "" THEN Reject(i, "", "irrelevant", NoSurvey, <<>>)
       ELSE IF mappingKey(EntityOf(parts[1]), parts[2]) \notin mappings
       THEN Reject(i, EntityOf(parts[1]), "unseen", NoSurvey, <<>>)
       ELSE inst' = [inst EXCEPT ![i].pc = "pubIndex", ![i].entity = EntityOf(parts[1]),
                                 ![i].outcome = "valid",
                                 ![i].data = IF EntityOf(parts[1]) = "survey"
                                             THEN [NoSurvey EXCEPT !.UID = parts[2]]
                                             ELSE [NoResponse EXCEPT !.UID = parts[2]],
                                 ![i].action = ActionDeleted]
    /\ UNCHANGED <<feed, mappings, published, faults, events, processor>>

\* kvHandler -> handleKVDelete -> handleSurveyDelete / handleSurveyResponseDelete
\* up to the publish: the uid is the key after its first "."
handleKVDelete(i) ==
    /\ inst[i].pc = "kvHandler"
    /\ inst[i].operation \in {"KeyValueDelete", "KeyValuePurge"}
    /\ LET parts == SplitN2(inst[i].key) IN
       IF Len(parts) < 2 THEN Reject(i, "", "bad_key", NoSurvey, <<>>)
       ELSE IF EntityOf(parts[1]) = "" THEN Reject(i, "", "irrelevant", NoSurvey, <<>>)
       ELSE inst' = [inst EXCEPT ![i].pc = "pubIndex", ![i].entity = EntityOf(parts[1]),
                                 ![i].outcome = "valid",
                                 ![i].data = IF EntityOf(parts[1]) = "survey"
                                             THEN [NoSurvey EXCEPT !.UID = parts[2]]
                                             ELSE [NoResponse EXCEPT !.UID = parts[2]],
                                 ![i].action = ActionDeleted]
    /\ UNCHANGED <<feed, mappings, published, faults, events, processor>>

\* (mutant of mappingsGet) the action follows the presence of the key, whatever
\* the lookup returned
mappingsGet_ByPresence(i) ==
    /\ inst[i].pc = "get"
    /\ LET key == mappingKey(inst[i].entity, inst[i].data.UID) IN
       \E failed \in (IF key \in mappings THEN BOOLEAN ELSE {FALSE}) :
        LET errIsNil == key \in mappings /\ ~failed IN
        /\ inst' = [inst EXCEPT ![i].pc = "pubIndex", ![i].getErr = ~errIsNil,
                                ![i].action = IF key \in mappings THEN ActionUpdated
                                              ELSE ActionCreated]
        /\ faults' = IF failed THEN faults \cup {key} ELSE faults
    /\ UNCHANGED <<feed, mappings, published, events, processor>>

\* handleSurveyUpdate / handleSurveyResponseUpdate: mappingsKV.Get decides the
\* action. Get returns an error when the key is absent, and also when the
\* store fails although it holds the key (failed).
mappingsGet(i) ==
    /\ inst[i].pc = "get"
    /\ LET key == mappingKey(inst[i].entity, inst[i].data.UID) IN
       \E failed \in (IF key \in mappings THEN BOOLEAN ELSE {FALSE}) :
        LET errIsNil == key \in mappings /\ ~failed IN
        /\ inst' = [inst EXCEPT ![i].pc = "pubIndex", ![i].getErr = ~errIsNil,
                                ![i].action = IF errIsNil THEN ActionUpdated ELSE ActionCreated]
        /\ faults' = IF failed THEN faults \cup {key} ELSE faults
    /\ UNCHANGED <<feed, mappings, published, events, processor>>

\* a published message; nid and attempt name the delivery whose processing
\* published it (bookkeeping, no part of the payload)
IndexerMessage(i, entity, action, uid) ==
    [subject |-> IF entity = "survey" THEN IndexSurveySubject ELSE IndexSurveyResponseSubject,
     action |-> action, operation |-> "", object_type |-> entity, uid |-> uid,
     headers |-> buildHeaders(inst[i].ctx),
     parent_refs |-> parentRefsOf(entity, inst[i].data),
     relations |-> {},
     references |-> {},
     nid |-> inst[i].nid, attempt |-> inst[i].attempt]

AccessMessage(i, operation, entity, uid) ==
    [subject |-> IF operation = "delete_access" THEN DeleteAccessSubject ELSE UpdateAccessSubject,
     action |-> "", operation |-> operation, object_type |-> entity, uid |-> uid,
     headers |-> NoHeaders,
     parent_refs |-> <<>>,
     relations |-> IF operation = "delete_access" THEN {}
                   ELSE relationsOf(entity, inst[i].data),
     references |-> IF operation = "delete_access" THEN {}
                    ELSE referencesOf(entity, inst[i].data),
     nid |-> inst[i].nid, attempt |-> inst[i].attempt]

\* (mutant of NoReferences) the access-control message is never skipped
NoReferences_NeverSkips(i) == FALSE

\* sendSurveyAccessMessage / sendSurveyResponseAccessMessage: nothing to reference
NoReferences(i) ==
    IF inst[i].entity = "survey" THEN surveyReferences(inst[i].data) = {}
    ELSE responseReferences(inst[i].data) = {}

\* the text an entity kind has in the publisher's error messages
Noun(entity) == IF entity = "survey" THEN "survey" ELSE "survey response"

\* (mutant of PublishFailed) the handler goes on to the mapping store after a
\* failed publish
PublishFailed_StoreAnyway(i, err) ==
    inst' = [inst EXCEPT ![i].pc = "store", ![i].pubErr = err,
                         ![i].shouldRetry = isTransientError(err)]

\* the publish failed: the handler classifies the error and returns
PublishFailed(i, err) ==
    inst' = [inst EXCEPT ![i].pc = "ack", ![i].pubErr = err,
                         ![i].shouldRetry = isTransientError(err)]

\* (mutant of publishIndexer) a failed indexing publish does not end the call
publishIndexer_GoesOn(i) ==
    /\ inst[i].pc = "pubIndex"
    /\ \E e \in PublishOutcomes :
        LET m == IndexerMessage(i, inst[i].entity, inst[i].action, inst[i].data.UID) IN
        /\ published' = IF e = NilErr THEN Append(published, m) ELSE published
        /\ inst' = [inst EXCEPT ![i].pc = "pubAccess"]
    /\ UNCHANGED <<feed, mappings, faults, events, processor>>

\* PublishSurveyEvent / PublishSurveyResponseEvent, first half:
\* sendSurveyIndexerMessage -> sendIndexerDeleteMessage / sendIndexerCreateUpdateMessage
publishIndexer(i) ==
    /\ inst[i].pc = "pubIndex"
    /\ \E e \in PublishOutcomes :
        LET m == IndexerMessage(i, inst[i].entity, inst[i].action, inst[i].data.UID) IN
        IF e = NilErr
        THEN /\ published' = Append(published, m)
             /\ inst' = [inst EXCEPT ![i].pc = "pubAccess"]
        ELSE /\ PublishFailed(i,
                    Wrap("failed to send " \o Noun(inst[i].entity) \o " indexer message",
                         Wrap((IF inst[i].action = ActionDeleted
                               THEN "failed to publish indexer delete message to subject "
                               ELSE "failed to publish indexer message to subject ")
                              \o m.subject, e)))
             /\ UNCHANGED published
    /\ UNCHANGED <<feed, mappings, faults, events, processor>>

\* PublishSurveyEvent / PublishSurveyResponseEvent, second half:
\* sendDeleteAccessMessage for a delete, else sendSurveyAccessMessage /
\* sendSurveyResponseAccessMessage, which publish nothing without references
publishAccess(i) ==
    /\ inst[i].pc = "pubAccess"
    /\ IF inst[i].action = ActionDeleted
       THEN \E e \in PublishOutcomes :
            IF e = NilErr
            THEN /\ published' = Append(published,
                        AccessMessage(i, "delete_access", inst[i].entity, inst[i].data.UID))
                 /\ inst' = [inst EXCEPT ![i].pc = "store"]
            ELSE /\ PublishFailed(i,
                        Wrap("failed to send " \o Noun(inst[i].entity) \o " delete access message",
                             Wrap("failed to publish delete access message to subject "
                                  \o DeleteAccessSubject, e)))
                 /\ UNCHANGED published
       ELSE IF NoReferences(i)
       THEN /\ inst' = [inst EXCEPT ![i].pc = "store"]
            /\ UNCHANGED published
       ELSE \E e \in PublishOutcomes :
            IF e = NilErr
            THEN /\ published' = Append(published,
                        AccessMessage(i, "update_access", inst[i].entity, inst[i].data.UID))
                 /\ inst' = [inst EXCEPT ![i].pc = "store"]
            ELSE /\ PublishFailed(i,
                        Wrap("failed to send " \o Noun(inst[i].entity) \o " access message",
                             Wrap("failed to publish access message to subject "
                                  \o UpdateAccessSubject, e)))
                 /\ UNCHANGED published
    /\ UNCHANGED <<feed, mappings, faults, events, processor>>

\* (mutant of mappingsPut) the mapping entry is never written
mappingsPut_Forgotten(i) ==
    /\ inst[i].pc = "store"
    /\ inst[i].action # ActionDeleted
    /\ inst' = [inst EXCEPT ![i].pc = "ack", ![i].shouldRetry = FALSE]
    /\ UNCHANGED <<feed, mappings, published, faults, events, processor>>

\* after a successful create/update publish: mappingsKV.Put, best effort
mappingsPut(i) ==
    /\ inst[i].pc = "store"
    /\ inst[i].action # ActionDeleted
    /\ \E failed \in BOOLEAN :
        /\ mappings' = IF failed THEN mappings
                       ELSE mappings \cup {mappingKey(inst[i].entity, inst[i].data.UID)}
        /\ faults' = IF failed THEN faults \cup {mappingKey(inst[i].entity, inst[i].data.UID)}
                     ELSE faults
        /\ inst' = [inst EXCEPT ![i].pc = "ack", ![i].storeErr = failed,
                                ![i].shouldRetry = FALSE]
    /\ UNCHANGED <<feed, published, events, processor>>

\* (mutant of mappingsDelete) a failed removal asks for a retry
mappingsDelete_RetryOnFailure(i) ==
    /\ inst[i].pc = "store"
    /\ inst[i].action = ActionDeleted
    /\ \E failed \in BOOLEAN :
        /\ mappings' = IF failed THEN mappings
                       ELSE mappings \ {mappingKey(inst[i].entity, inst[i].data.UID)}
        /\ faults' = IF failed THEN faults \cup {mappingKey(inst[i].entity, inst[i].data.UID)}
                     ELSE faults
        /\ inst' = [inst EXCEPT ![i].pc = "ack", ![i].storeErr = failed,
                                ![i].shouldRetry = failed]
    /\ UNCHANGED <<feed, published, events, processor>>

\* after a successful delete publish: mappingsKV.Delete, best effort
mappingsDelete(i) ==
    /\ inst[i].pc = "store"
    /\ inst[i].action = ActionDeleted
    /\ \E failed \in BOOLEAN :
        /\ mappings' = IF failed THEN mappings
                       ELSE mappings \ {mappingKey(inst[i].entity, inst[i].data.UID)}
        /\ faults' = IF failed THEN faults \cup {mappingKey(inst[i].entity, inst[i].data.UID)}
                     ELSE faults
        /\ inst' = [inst EXCEPT ![i].pc = "ack", ![i].storeErr = failed,
                                ![i].shouldRetry = FALSE]
    /\ UNCHANGED <<feed, published, events, processor>>

\* (mutant of AfterNak) the broker never gives a notification up
AfterNak_NeverGivenUp(nid) == "nakked"

\* the consumer's MaxDeliver: a negatively acknowledged notification is up for
\* redelivery while it has been delivered fewer than MaxDeliver times, and
\* given up by the broker after that
AfterNak(nid) == IF feed[nid].deliveries < MaxDeliver THEN "nakked" ELSE "dead"

\* the content of a settled notification is no longer kept by the broker
Settle(nid, status) ==
    feed' = [feed EXCEPT ![nid].status = status,
                         ![nid].msg = IF status = "nakked" THEN @ ELSE NoMsg]

\* (mutant of AckOrNak) the acknowledgment is not in an else branch: it is
\* sent after a Nak too
AckOrNak_AckAfterNak(i) ==
    /\ inst[i].pc = "ack"
    /\ inst' = [inst EXCEPT ![i].pc = "done", ![i].acks = @ + 1,
                            ![i].naks = IF inst[i].shouldRetry THEN @ + 1 ELSE @]
    /\ Settle(inst[i].nid, "acked")
    /\ UNCHANGED <<mappings, published, faults, events, processor>>

\* kvMessageHandler after kvHandler returned: msg.Nak() on should-retry,
\* msg.Ack() otherwise. A notification nakked on its last allowed delivery is
\* not delivered again.
AckOrNak(i) ==
    /\ inst[i].pc = "ack"
    /\ IF inst[i].shouldRetry
       THEN /\ inst' = [inst EXCEPT ![i].pc = "done", ![i].naks = @ + 1]
            /\ Settle(inst[i].nid, AfterNak(inst[i].nid))
       ELSE /\ inst' = [inst EXCEPT ![i].pc = "done", ![i].acks = @ + 1]
            /\ Settle(inst[i].nid, "acked")
    /\ UNCHANGED <<mappings, published, faults, events, processor>>

Next ==
    \E i \in DOMAIN inst :
        \/ Deliver(i)
        \/ Redeliver(i)
        \/ handleKVPut(i)
        \/ handleKVDelete(i)
        \/ mappingsGet(i)
        \/ publishIndexer(i)
        \/ publishAccess(i)
        \/ mappingsPut(i)
        \/ mappingsDelete(i)
        \/ AckOrNak(i)

Spec == Init /\ [][Next]_vars

----------------------------------------------------------------------------
(* The publisher on its own: PublishSurveyEvent called with any survey *)

\* number of committee links of the surveys handed to the publisher
MaxLinks == 2

\* a transformed committee link: each UID unresolved or resolved, two
\* committees and one project to resolve to
LinkData ==
    {[CommitteeID |-> "c", ProjectID |-> "p", NPSValue |-> "0",
      CommitteeUID |-> cu, ProjectUID |-> pu] :
        cu \in {"", "v2-c1", "v2-c2"}, pu \in {"", "v2-p1"}}

SeqsUpTo(S, n) == UNION {[1..k -> S] : k \in 0..n}

PublisherSurveys ==
    {[UID |-> "s1", NPSValue |-> "8", Committees |-> cs] : cs \in SeqsUpTo(LinkData, MaxLinks)}

\* the contexts a caller can pass: without values, with a token under the
\* string key, with a token and a principal under string keys, and with a
\* token under the key constants.AuthorizationContextID
Contexts ==
    {NoValues,
     {<<StringKey("authorization"), "Bearer tok">>},
     {<<StringKey("authorization"), "Bearer tok">>, <<StringKey("principal"), "alice">>},
     {<<ContextKey("authorization"), "Bearer tok">>}}

\* a caller is about to call PublishSurveyEvent(ctx, action, survey)
PublisherInit ==
    /\ feed = <<>>
    /\ mappings = {}
    /\ published = <<>>
    /\ faults = {}
    /\ events = 0
    /\ processor = "running"
    /\ inst \in {[i \in Instances |->
                    [Idle EXCEPT !.pc = "pubIndex", !.ctx = c, !.nid = 1, !.attempt = 1,
                                 !.entity = "survey", !.outcome = "valid",
                                 !.data = d, !.action = a]] :
                 c \in Contexts, d \in PublisherSurveys,
                 a \in {ActionCreated, ActionUpdated, ActionDeleted}}

PublisherNext == \E i \in DOMAIN inst : publishIndexer(i) \/ publishAccess(i)

PublisherSpec == PublisherInit /\ [][PublisherNext]_vars

\* the transformed survey responses handed to the publisher: the respondent
\* known or not, the project resolved or not, the survey known or not
PublisherResponses ==
    {[NoResponse EXCEPT !.UID = "r1", !.NPSValue = "8", !.Username = u, !.ProjectID = "p1",
                        !.ProjectUID = pu, !.SurveyUID = su, !.CommitteeID = "c1",
                        !.CommitteeUID = "v2-c1"] :
        u \in {"", "bob"}, pu \in {"", "v2-p1"}, su \in {"", "s1"}}

\* a caller is about to call PublishSurveyResponseEvent(ctx, action, response)
ResponsePublisherInit ==
    /\ feed = <<>>
    /\ mappings = {}
    /\ published = <<>>
    /\ faults = {}
    /\ events = 0
    /\ processor = "running"
    /\ inst \in {[i \in Instances |->
                    [Idle EXCEPT !.pc = "pubIndex", !.ctx = c, !.nid = 1, !.attempt = 1,
                                 !.entity = "survey_response", !.outcome = "valid",
                                 !.data = d, !.action = a]] :
                 c \in Contexts, d \in PublisherResponses,
                 a \in {ActionCreated, ActionUpdated, ActionDeleted}}

ResponsePublisherSpec == ResponsePublisherInit /\ [][PublisherNext]_vars

----------------------------------------------------------------------------
(* One put on its own, with any value in a numeric field *)

\* integers in decimal text: small ones, one wider than 32 bits, 2^53 and
\* integers next to it
IntegerTexts ==
    {"0", "8", "-12", "120", "4294967296", "9007199254740992", "9007199254740993",
     "-9007199254740995", "9007199254740998"}

\* strings that are not the decimal text of an integer
NonIntegerTexts == {"n/a", "8.5", " 8", "0x10", "1e3", "--8"}

\* what a numeric field of a legacy record can hold
NumericValues ==
    {JNum(n) : n \in IntegerTexts}
        \cup {JStr(n) : n \in IntegerTexts \cup NonIntegerTexts \cup {"", MaxInt64}}
        \cup {JNull, JBool}

\* the put of a survey with the value in nps_value, of a survey with the
\* value in nps_value of its committee entry, and of a survey response with
\* the value in nps_value
NumericPuts ==
    {[subject |-> KVPrefix \o "itx-surveys.s1", opHeader |-> "",
      body |-> Body("s1", v, <<Link("c1", "p1")>>, "", "", "", "")] : v \in NumericValues}
    \cup
    {[subject |-> KVPrefix \o "itx-surveys.s1", opHeader |-> "",
      body |-> Body("s1", JNull, <<NumLink("c1", "p1", v)>>, "", "", "", "")] :
        v \in NumericValues}
    \cup
    {[subject |-> KVPrefix \o "itx-survey-responses.s1", opHeader |-> "",
      body |-> Body("s1", v, <<>>, "p1", "c1", "bob", "s1")] : v \in NumericValues}

\* the callback has been handed the first delivery of such a put
NumericInit ==
    /\ mappings = {}
    /\ published = <<>>
    /\ faults = {}
    /\ events = 1
    /\ processor = "running"
    /\ \E n \in NumericPuts :
        /\ feed = <<[msg |-> n, deliveries |-> 1, status |-> "inflight"]>>
        /\ inst = [i \in Instances |->
                     [Idle EXCEPT !.pc = "kvHandler", !.nid = 1, !.msg = n, !.attempt = 1,
                                  !.key = KeyOf(n.subject),
                                  !.operation = OperationOf(n.opHeader)]]

NumericNext ==
    \E i \in DOMAIN inst :
        \/ handleKVPut(i)
        \/ mappingsGet(i)
        \/ publishIndexer(i)
        \/ publishAccess(i)
        \/ mappingsPut(i)
        \/ AckOrNak(i)

NumericSpec == NumericInit /\ [][NumericNext]_vars

----------------------------------------------------------------------------
(* The pipeline with its shutdown *)

\* main.go run: eventProcessorCancel(), which ends Start's wait on ctx.Done()
Cancel ==
    /\ processor = "running"
    /\ processor' = "cancelled"
    /\ UNCHANGED <<feed, inst, mappings, published, faults, events>>

\* main.go run, after the cancel: EventProcessor.Stop, whose consumeCtx.Stop()
\* ends the consumption; a callback that is running goes on
Stop ==
    /\ processor = "cancelled"
    /\ processor' = "stopped"
    /\ UNCHANGED <<feed, inst, mappings, published, faults, events>>

ShutdownNext == Next \/ Cancel \/ Stop

ShutdownSpec == Init /\ [][ShutdownNext]_vars

----------------------------------------------------------------------------
(* One lookup of the Identifier Mapper, idmapper.NATSMapper.lookup *)

\* NewNATSMapper: the timeout the mapper is configured with, in ticks of the
\* clock the lookup is watched with, and how long a lookup is watched
MapperTimeout == 2
MaxWait == MapperTimeout + 2

\* DomainError: its type and its text; NoError is nil
NoError == [type |-> "", text |-> ""]
NewValidationError(text) == [type |-> "ErrorTypeValidation", text |-> text]
NewUnavailableError(text) == [type |-> "ErrorTypeUnavailable", text |-> text]

\* GetErrorType: the type of a domain error
GetErrorType(err) == IF err.type # "" THEN err.type ELSE "ErrorTypeInternal"

\* what lookup returns when RequestWithContext failed with err
lookupFailed(err) ==
    IF err \in {"context deadline exceeded", "nats: timeout"}
    THEN [value |-> "", err |-> NewUnavailableError("v1-sync-helper lookup timed out: " \o err)]
    ELSE [value |-> "", err |-> NewUnavailableError("failed to lookup ID mapping: " \o err)]

\* (mutant of lookupReplied) an empty reply is reported like a failure of the
\* mapping service
lookupReplied_EmptyIsUnavailable(key, response) ==
    IF Len(response) >= 7 /\ SubSeq(response, 1, 7) = "error: "
    THEN [value |-> "",
          err |-> NewUnavailableError("v1-sync-helper error: "
                                         \o SubSeq(response, 8, Len(response)))]
    ELSE IF response = ""
    THEN [value |-> "",
          err |-> NewUnavailableError("invalid ID: mapping not found for " \o key)]
    ELSE [value |-> response, err |-> NoError]

\* what lookup returns when the mapping service replied
lookupReplied(key, response) ==
    IF Len(response) >= 7 /\ SubSeq(response, 1, 7) = "error: "
    THEN [value |-> "",
          err |-> NewUnavailableError("v1-sync-helper error: "
                                         \o SubSeq(response, 8, Len(response)))]
    ELSE IF response = ""
    THEN [value |-> "",
          err |-> NewValidationError("invalid ID: mapping not found for " \o key)]
    ELSE [value |-> response, err |-> NoError]

\* the replies of the mapping service, and the failures of the transport
Replies == {"v2-c1", "", "error: lookup failed", "error: "}
TransportErrors == {"nats: connection closed", "nats: no responders available for request"}

\* the deadline of the context a caller passes, in ticks; 0 is a context with
\* no deadline, as the one run() makes for the event processor
Deadlines == {0, 1, MapperTimeout + 1}

NotReturned == [value |-> "", err |-> NoError]

\* a caller is about to call lookup(ctx, key) of a mapper configured with
\* MapperTimeout
LookupInit ==
    /\ feed = <<>>
    /\ mappings = {}
    /\ published = <<>>
    /\ faults = {}
    /\ events = 0
    /\ processor = "running"
    /\ inst \in {[i \in Instances |->
                    [pc |-> "lookup", key |-> k, timeout |-> MapperTimeout, deadline |-> d,
                     waited |-> 0, replied |-> FALSE, response |-> "", cause |-> "",
                     result |-> NotReturned]] :
                 k \in {"committee.sfid.c1", "project.sfid.p1"}, d \in Deadlines}

\* lookup returns
Return(i, cause, result) ==
    inst' = [inst EXCEPT ![i].pc = "returned", ![i].cause = cause, ![i].result = result]

\* conn.RequestWithContext, up to the wait for the reply: the context is
\* checked, and the request is sent
RequestWithContext(i) ==
    /\ inst[i].pc = "lookup"
    /\ IF processor # "running"
       THEN Return(i, "cancelled", lookupFailed("context canceled"))
       ELSE \/ \E e \in TransportErrors : Return(i, "transport", lookupFailed(e))
            \/ inst' = [inst EXCEPT ![i].pc = "waiting"]
    /\ UNCHANGED <<feed, mappings, published, faults, events, processor>>

\* the mapping service has not replied, and time passes
Tick(i) ==
    /\ inst[i].pc = "waiting"
    /\ inst[i].waited < MaxWait
    /\ inst[i].deadline = 0 \/ inst[i].waited < inst[i].deadline
    /\ inst' = [inst EXCEPT ![i].waited = @ + 1]
    /\ UNCHANGED <<feed, mappings, published, faults, events, processor>>

\* conn.RequestWithContext, case <-ctx.Done(): the deadline of the context
DeadlineExceeded(i) ==
    /\ inst[i].pc = "waiting"
    /\ inst[i].deadline # 0 /\ inst[i].waited = inst[i].deadline
    /\ Return(i, "timeout", lookupFailed("context deadline exceeded"))
    /\ UNCHANGED <<feed, mappings, published, faults, events, processor>>

\* conn.RequestWithContext, case <-ctx.Done(): the context was cancelled
ContextCancelled(i) ==
    /\ inst[i].pc = "waiting"
    /\ processor # "running"
    /\ Return(i, "cancelled", lookupFailed("context canceled"))
    /\ UNCHANGED <<feed, mappings, published, faults, events, processor>>

\* the mapping service replies
Reply(i) ==
    /\ inst[i].pc = "waiting"
    /\ \E response \in Replies :
        inst' = [inst EXCEPT ![i].pc = "returned", ![i].cause = "reply",
                             ![i].replied = TRUE, ![i].response = response,
                             ![i].result = lookupReplied(inst[i].key, response)]
    /\ UNCHANGED <<feed, mappings, published, faults, events, processor>>

LookupNext ==
    \/ Cancel
    \/ \E i \in DOMAIN inst :
        \/ RequestWithContext(i)
        \/ Tick(i)
        \/ DeadlineExceeded(i)
        \/ ContextCancelled(i)
        \/ Reply(i)

LookupSpec == LookupInit /\ [][LookupNext]_vars

----------------------------------------------------------------------------
(* The lifecycle of the event processor: Start in its goroutine, Stop *)

\* the EventProcessor NewEventProcessor returns, with its context: the
\* connection is open, no consumer and no consume context exist. start and
\* stop are the positions of the two calls; readAt is the position of Start
\* when Stop read ep.consumeCtx
NewEventProcessor ==
    [ctx |-> "live", natsConn |-> "open", consumer |-> "nil", consumeCtx |-> "nil",
     start |-> "notCalled", startResult |-> "", stop |-> "notCalled", readAt |-> "",
     halted |-> FALSE, stopResult |-> ""]

LifecycleInit ==
    /\ feed = <<>>
    /\ inst = [i \in Instances |-> Idle]
    /\ mappings = {}
    /\ published = <<>>
    /\ faults = {}
    /\ events = 0
    /\ processor = NewEventProcessor

\* run: go eventProcessor.Start(eventProcessorCtx)
StartCall ==
    /\ processor.start = "notCalled"
    /\ processor' = [processor EXCEPT !.start = "createConsumer"]
    /\ UNCHANGED <<feed, inst, mappings, published, faults, events>>

\* Start: CreateOrUpdateConsumer, which fails on a cancelled context, on a
\* closed connection, and whenever the broker refuses
CreateOrUpdateConsumer ==
    /\ processor.start = "createConsumer"
    /\ \E failed \in BOOLEAN :
        IF failed \/ processor.ctx # "live" \/ processor.natsConn # "open"
        THEN processor' = [processor EXCEPT !.start = "failed",
                               !.startResult = "failed to create or update consumer"]
        ELSE processor' = [processor EXCEPT !.start = "consume", !.consumer = "set"]
    /\ UNCHANGED <<feed, inst, mappings, published, faults, events>>

\* Start: consumer.Consume
Consume ==
    /\ processor.start = "consume"
    /\ \E failed \in BOOLEAN :
        IF failed \/ processor.natsConn # "open"
        THEN processor' = [processor EXCEPT !.start = "failed",
                               !.startResult = "failed to start consuming messages"]
        ELSE processor' = [processor EXCEPT !.start = "assign"]
    /\ UNCHANGED <<feed, inst, mappings, published, faults, events>>

\* Start: ep.consumeCtx = consumeCtx, then the wait on ctx.Done()
AssignConsumeCtx ==
    /\ processor.start = "assign"
    /\ processor' = [processor EXCEPT !.start = "blocked", !.consumeCtx = "active"]
    /\ UNCHANGED <<feed, inst, mappings, published, faults, events>>

\* run: eventProcessorCancel()
CancelContext ==
    /\ processor.ctx = "live"
    /\ processor' = [processor EXCEPT !.ctx = "cancelled"]
    /\ UNCHANGED <<feed, inst, mappings, published, faults, events>>

\* Start: <-ctx.Done() and the return
StartReturn ==
    /\ processor.start = "blocked"
    /\ processor.ctx = "cancelled"
    /\ processor' = [processor EXCEPT !.start = "returned", !.startResult = "nil"]
    /\ UNCHANGED <<feed, inst, mappings, published, faults, events>>

\* run: eventProcessor.Stop(), wherever Start is
StopCall ==
    /\ processor.stop = "notCalled"
    /\ processor' = [processor EXCEPT !.stop = "consumer"]
    /\ UNCHANGED <<feed, inst, mappings, published, faults, events>>

\* (mutant of haltsConsumer) the consumer halt is not guarded
haltsConsumer_Unguarded(consumeCtx) == TRUE

\* Stop: if ep.consumeCtx != nil
haltsConsumer(consumeCtx) == consumeCtx # "nil"

\* what Stop reads in ep.consumeCtx. Start assigns the field in another
\* goroutine with no synchronisation: a read while Start is at the assignment
\* is a data race, and gives the old value, the new one, or a torn interface
\* value
ReadConsumeCtx ==
    IF processor.start = "assign" THEN {"nil", "active", "torn"} ELSE {processor.consumeCtx}

\* Stop: the consumer halt. A method call on a nil or torn interface value
\* panics.
StopConsumer ==
    /\ processor.stop = "consumer"
    /\ \E read \in ReadConsumeCtx :
        IF ~haltsConsumer(read)
        THEN processor' = [processor EXCEPT !.stop = "drain", !.readAt = processor.start]
        ELSE IF read \in {"nil", "torn"}
        THEN processor' = [processor EXCEPT !.stop = "panicked", !.readAt = processor.start]
        ELSE processor' = [processor EXCEPT !.stop = "drain", !.readAt = processor.start,
                               !.halted = TRUE,
                               !.consumeCtx = IF @ = "nil" THEN @ ELSE "stopped"]
    /\ UNCHANGED <<feed, inst, mappings, published, faults, events>>

\* Stop: natsConn.Drain(), whose error is logged, and natsConn.Close()
StopConnection ==
    /\ processor.stop = "drain"
    /\ processor' = [processor EXCEPT !.stop = "publisher", !.natsConn = "closed"]
    /\ UNCHANGED <<feed, inst, mappings, published, faults, events>>

\* Stop: publisher.Close(), which returns nil, and return nil
StopReturn ==
    /\ processor.stop = "publisher"
    /\ processor' = [processor EXCEPT !.stop = "returned", !.stopResult = "nil"]
    /\ UNCHANGED <<feed, inst, mappings, published, faults, events>>

LifecycleNext ==
    \/ StartCall
    \/ CreateOrUpdateConsumer
    \/ Consume
    \/ AssignConsumeCtx
    \/ CancelContext
    \/ StartReturn
    \/ StopCall
    \/ StopConsumer
    \/ StopConnection
    \/ StopReturn

LifecycleSpec == LifecycleInit /\ [][LifecycleNext]_vars

----------------------------------------------------------------------------
(* run: the event processor's goroutine, the HTTP server's, and shutdown *)

\* run after NewEventProcessor: next to the processor's fields, main is the
\* position of run (at its select, shutting down, returned), shutdown the
\* number of signals in the channel of capacity 1, quit whether an interrupt
\* has arrived, http the HTTP server, goroutine the goroutine that calls
\* Start
RunInit ==
    /\ feed = <<>>
    /\ inst = [i \in Instances |-> Idle]
    /\ mappings = {}
    /\ published = <<>>
    /\ faults = {}
    /\ events = 0
    /\ processor = NewEventProcessor @@
                     [main |-> "select", shutdown |-> 0, quit |-> FALSE,
                      http |-> "serving", goroutine |-> "running", exitCode |-> -1]

\* (mutant of SignalShutdown) the error of Start is logged and no more
SignalShutdown_LogOnly ==
    /\ processor.goroutine = "running"
    /\ processor.start = "failed"
    /\ processor' = [processor EXCEPT !.goroutine = "exited"]
    /\ UNCHANGED <<feed, inst, mappings, published, faults, events>>

\* the goroutine, Start having returned an error: select { case shutdown <-
\* struct{}{}: default: }, a send that is dropped when the channel is full
SignalShutdown ==
    /\ processor.goroutine = "running"
    /\ processor.start = "failed"
    /\ processor' = [processor EXCEPT !.goroutine = "exited", !.shutdown = 1]
    /\ UNCHANGED <<feed, inst, mappings, published, faults, events>>

\* the goroutine, Start having returned nil
GoroutineReturn ==
    /\ processor.goroutine = "running"
    /\ processor.start = "returned"
    /\ processor' = [processor EXCEPT !.goroutine = "exited"]
    /\ UNCHANGED <<feed, inst, mappings, published, faults, events>>

\* the HTTP goroutine: ListenAndServe fails, and the same send
ListenAndServeFails ==
    /\ processor.http = "serving"
    /\ processor' = [processor EXCEPT !.http = "failed", !.shutdown = 1]
    /\ UNCHANGED <<feed, inst, mappings, published, faults, events>>

\* SIGINT or SIGTERM arrives
Interrupt ==
    /\ ~processor.quit
    /\ processor.main = "select"
    /\ processor' = [processor EXCEPT !.quit = TRUE]
    /\ UNCHANGED <<feed, inst, mappings, published, faults, events>>

\* run: select { case <-quit: case <-shutdown: }
MainSelect ==
    /\ processor.main = "select"
    /\ \/ /\ processor.quit
          /\ processor' = [processor EXCEPT !.main = "shutdown"]
       \/ /\ processor.shutdown > 0
          /\ processor' = [processor EXCEPT !.main = "shutdown", !.shutdown = 0]
    /\ UNCHANGED <<feed, inst, mappings, published, faults, events>>

\* run: eventProcessorCancel()
MainCancel == processor.main = "shutdown" /\ CancelContext

\* run: eventProcessor.Stop(), after the cancel
MainStop == processor.main = "shutdown" /\ processor.ctx = "cancelled" /\ StopCall

\* run: srv.Shutdown after Stop returned, and the return of run: 1 when the
\* server was forced to shut down
SrvShutdown ==
    /\ processor.main = "shutdown"
    /\ processor.stop = "returned"
    /\ \E code \in {0, 1} :
        processor' = [processor EXCEPT !.main = "returned", !.http = "closed", !.exitCode = code]
    /\ UNCHANGED <<feed, inst, mappings, published, faults, events>>

RunNext ==
    \/ StartCall
    \/ CreateOrUpdateConsumer
    \/ Consume
    \/ AssignConsumeCtx
    \/ StartReturn
    \/ SignalShutdown
    \/ GoroutineReturn
    \/ ListenAndServeFails
    \/ Interrupt
    \/ MainSelect
    \/ MainCancel
    \/ MainStop
    \/ StopConsumer
    \/ StopConnection
    \/ StopReturn
    \/ SrvShutdown

\* the goroutines are scheduled: a step of run or of the goroutine that stays
\* possible is taken
RunSpec ==
    /\ RunInit /\ [][RunNext]_vars
    /\ WF_vars(SignalShutdown) /\ WF_vars(MainSelect) /\ WF_vars(MainCancel)
    /\ WF_vars(MainStop) /\ WF_vars(StopConsumer) /\ WF_vars(StopConnection)
    /\ WF_vars(StopReturn) /\ WF_vars(SrvShutdown)

----------------------------------------------------------------------------
(* One notification with all its redeliveries *)

\* a put of a survey with a link, a put of a survey response, and a delete
RetriedNotifications ==
    {[subject |-> KVPrefix \o "itx-surveys.s1", opHeader |-> "",
      body |-> Body("s1", JStr("8"), <<Link("c1", "p1")>>, "", "", "", "")],
     [subject |-> KVPrefix \o "itx-survey-responses.s1", opHeader |-> "",
      body |-> Body("s1", JNum("8"), <<>>, "p1", "c1", "bob", "s1")],
     [subject |-> KVPrefix \o "itx-surveys.s1", opHeader |-> "DEL", body |-> Undecodable]}

\* the callback has been handed the first delivery of the notification
RetryInit ==
    /\ mappings = {}
    /\ published = <<>>
    /\ faults = {}
    /\ events = 1
    /\ processor = "running"
    /\ \E n \in RetriedNotifications :
        /\ feed = <<[msg |-> n, deliveries |-> 1, status |-> "inflight"]>>
        /\ inst = [i \in Instances |->
                     [Idle EXCEPT !.pc = "kvHandler", !.nid = 1, !.msg = n, !.attempt = 1,
                                  !.key = KeyOf(n.subject),
                                  !.operation = OperationOf(n.opHeader)]]

RetryNext ==
    \E i \in DOMAIN inst :
        \/ Redelivery(i) /\ UNCHANGED events
        \/ handleKVPut(i)
        \/ handleKVDelete(i)
        \/ mappingsGet(i)
        \/ publishIndexer(i)
        \/ publishAccess(i)
        \/ mappingsPut(i)
        \/ mappingsDelete(i)
        \/ AckOrNak(i)

RetrySpec == RetryInit /\ [][RetryNext]_vars

----------------------------------------------------------------------------
(* Two instances on one durable consumer: a put and a delete of one survey *)

\* the instances that share the consumer
SharedInstances == {1, 2}

\* the put of survey s1 and the delete of its key
SharedPut ==
    [subject |-> KVPrefix \o "itx-surveys.s1", opHeader |-> "",
     body |-> Body("s1", JStr("8"), <<Link("c1", "p1")>>, "", "", "", "")]

SharedDelete == [subject |-> KVPrefix \o "itx-surveys.s1", opHeader |-> "DEL", body |-> Undecodable]

\* both notifications are in the stream. The put has not been delivered; the
\* delete has been delivered twice and negatively acknowledged twice, its
\* indexing publish having timed out, so that nothing is published or stored
\* yet and one delivery of it is left
SharedInit ==
    /\ feed = <<[msg |-> SharedPut, deliveries |-> 0, status |-> "pending"],
                [msg |-> SharedDelete, deliveries |-> MaxDeliver - 1, status |-> "nakked"]>>
    /\ inst = [i \in SharedInstances |-> Idle]
    /\ mappings = {}
    /\ published = <<>>
    /\ faults = {}
    /\ events = 2
    /\ processor = "running"

\* the broker hands a notification of the stream to an instance whose
\* callback is free: the consumer balances the notifications over the
\* instances that share it
Dispatch(i) ==
    /\ CallbackFree(i)
    /\ processor # "stopped"
    /\ \E nid \in 1..Len(feed) :
        /\ feed[nid].status = "pending"
        /\ feed' = [feed EXCEPT ![nid].deliveries = 1, ![nid].status = "inflight"]
        /\ Begin(i, nid, 1, feed[nid].msg)
    /\ UNCHANGED <<mappings, published, faults, events, processor>>

SharedNext ==
    \E i \in DOMAIN inst :
        \/ Dispatch(i)
        \/ Redelivery(i) /\ UNCHANGED events
        \/ handleKVPut(i)
        \/ handleKVDelete(i)
        \/ mappingsGet(i)
        \/ publishIndexer(i)
        \/ publishAccess(i)
        \/ mappingsPut(i)
        \/ mappingsDelete(i)
        \/ AckOrNak(i)

SharedSpec == SharedInit /\ [][SharedNext]_vars

----------------------------------------------------------------------------
(* A put and a delete of one key, the put's body naming any id *)

\* the ids the body of the put can carry: the key's own and another one
KeyedIds == {"s1", "s2"}

\* the put of a survey under key itx-surveys.s1
KeyedPuts ==
    {[subject |-> KVPrefix \o "itx-surveys.s1", opHeader |-> "",
      body |-> Body(id, JStr("8"), <<Link("c1", "p1")>>, "", "", "", "")] : id \in KeyedIds}

\* the delete of the key itx-surveys.s1
KeyedDelete == [subject |-> KVPrefix \o "itx-surveys.s1", opHeader |-> "DEL", body |-> Undecodable]

\* the put and the delete are in the stream, none delivered yet
KeyedInit ==
    /\ \E n \in KeyedPuts :
        feed = <<[msg |-> n, deliveries |-> 0, status |-> "pending"],
                 [msg |-> KeyedDelete, deliveries |-> 0, status |-> "pending"]>>
    /\ inst = [i \in Instances |-> Idle]
    /\ mappings = {}
    /\ published = <<>>
    /\ faults = {}
    /\ events = 2
    /\ processor = "running"

KeyedNext ==
    \E i \in DOMAIN inst :
        \/ Dispatch(i)
        \/ Redelivery(i) /\ UNCHANGED events
        \/ handleKVPut(i)
        \/ handleKVDelete(i)
        \/ mappingsGet(i)
        \/ publishIndexer(i)
        \/ publishAccess(i)
        \/ mappingsPut(i)
        \/ mappingsDelete(i)
        \/ AckOrNak(i)

KeyedSpec == KeyedInit /\ [][KeyedNext]_vars

----------------------------------------------------------------------------
(* One notification with any KV-Operation header and any subject *)

\* values of the KV-Operation header: missing (""), the two the handler
\* knows, and others
OpHeaders == {"", "DEL", "PURGE", "PUT", "del", "Purge", "ROLLUP"}

\* subjects: keys under the bucket's prefix, the prefix alone, shorter texts,
\* and a subject of another bucket
Subjects ==
    {KVPrefix \o "itx-surveys.s1", KVPrefix \o "itx-survey-responses.s1", KVPrefix \o "x",
     KVPrefix, "$KV.v1-objects", "", "$KV.v1-mappings.survey.s1"}

HeaderNotifications ==
    {[subject |-> s, opHeader |-> h,
      body |-> IF h \in {"DEL", "PURGE"} THEN Undecodable
               ELSE Body("s1", JStr("8"), <<Link("c1", "p1")>>, "p1", "c1", "bob", "s1")] :
        s \in Subjects, h \in OpHeaders}

\* the notification is in the stream, not delivered yet
HeaderInit ==
    /\ \E n \in HeaderNotifications :
        feed = <<[msg |-> n, deliveries |-> 0, status |-> "pending"]>>
    /\ inst = [i \in Instances |-> Idle]
    /\ mappings = {}
    /\ published = <<>>
    /\ faults = {}
    /\ events = 1
    /\ processor = "running"

HeaderNext ==
    \E i \in DOMAIN inst :
        \/ Dispatch(i)
        \/ handleKVPut(i)
        \/ handleKVDelete(i)
        \/ mappingsGet(i)
        \/ publishIndexer(i)
        \/ publishAccess(i)
        \/ mappingsPut(i)
        \/ mappingsDelete(i)
        \/ AckOrNak(i)

HeaderSpec == HeaderInit /\ [][HeaderNext]_vars

----------------------------------------------------------------------------
(* One delete or purge on its own, with any key *)

\* keys with no separator, with one, and with more than one
DeletedKeys ==
    {"itx-surveys", "itx-surveys.s1", "itx-surveys.s1.v2", "itx-surveys.a.b.c",
     "itx-survey-responses.r1", "itx-survey-responses.r1.x", "itx-survey-responses.",
     "itx-meetings.m1.x", "itx-surveys-old.s1"}

DeleteNotifications ==
    {[subject |-> KVPrefix \o k, opHeader |-> op, body |-> Undecodable] :
        k \in DeletedKeys, op \in {"DEL", "PURGE"}}

\* the callback has been handed the first delivery of a delete or purge; the
\* mapping store may hold the entry of a survey
DeleteInit ==
    /\ mappings \in {{}, {mappingKey("survey", "s1.v2")}}
    /\ published = <<>>
    /\ faults = {}
    /\ events = 1
    /\ processor = "running"
    /\ \E n \in DeleteNotifications :
        /\ feed = <<[msg |-> n, deliveries |-> 1, status |-> "inflight"]>>
        /\ inst = [i \in Instances |->
                     [Idle EXCEPT !.pc = "kvHandler", !.nid = 1, !.msg = n, !.attempt = 1,
                                  !.before = mappings,
                                  !.key = KeyOf(n.subject),
                                  !.operation = OperationOf(n.opHeader)]]

DeleteNext ==
    \E i \in DOMAIN inst :
        \/ handleKVDelete(i)
        \/ publishIndexer(i)
        \/ publishAccess(i)
        \/ mappingsDelete(i)
        \/ AckOrNak(i)

DeleteSpec == DeleteInit /\ [][DeleteNext]_vars

----------------------------------------------------------------------------
(* Properties *)

\* positions in published of the messages the current delivery of instance i
\* has published
PublishedBy(i) ==
    {k \in 1..Len(published) :
        published[k].nid = inst[i].nid /\ published[k].attempt = inst[i].attempt}

\* the failure indicators the error classifier is specified to look for
Indicators == {"timeout", "connection", "unavailable", "deadline"}
HasIndicator(err) == err # NilErr /\ \E w \in Indicators : Contains(err[1], w)

\* the handler has not returned yet
InHandler(i) == inst[i].pc \in {"kvHandler", "get", "pubIndex", "pubAccess", "store"}

IsPut(i) == inst[i].nid # 0 /\ inst[i].msg.opHeader \notin {"DEL", "PURGE"}
IsDelete(i) == inst[i].nid # 0 /\ inst[i].msg.opHeader \in {"DEL", "PURGE"}

\* C1: every delivery ends with exactly one of Nak and Ack, called after the
\* handler chain returned: Nak exactly when the handler returned should-retry,
\* Ack otherwise; nothing is acknowledged while the handler runs.
C1_ExactlyOneAckOrNak ==
    \A i \in DOMAIN inst :
        /\ (InHandler(i) \/ inst[i].pc = "ack") =>
              /\ inst[i].acks = 0 /\ inst[i].naks = 0
              /\ feed[inst[i].nid].status = "inflight"
        /\ inst[i].pc = "done" =>
              /\ inst[i].acks + inst[i].naks = 1
              /\ inst[i].naks = 1 <=> inst[i].shouldRetry
              /\ inst[i].acks = 1 <=> feed[inst[i].nid].status = "acked"

\* a delivery ended in Nak, and one before it ended in Ack
C1_Witness ==
    \E i \in DOMAIN inst :
        /\ inst[i].pc = "done" /\ inst[i].naks = 1 /\ inst[i].acks = 0
        /\ \E n \in 1..Len(feed) : feed[n].status = "acked"

\* the ways the Record Transformer fails a put
TransformerFailures == {"bad_json", "convert_error", "empty_uid", "orphan"}

\* C2: a put is nakked only after a publish failed with a transient error;
\* a put the transformer failed (undecodable body, numeric conversion, empty
\* uid, orphan) is acked, and its processing published nothing and left the
\* mapping store as it was.
C2_PutNakOnlyOnTransientPublish ==
    \A i \in DOMAIN inst :
        (inst[i].pc = "done" /\ IsPut(i)) =>
            /\ inst[i].naks > 0 => HasIndicator(inst[i].pubErr)
            /\ ( \/ ~inst[i].msg.body.decodes
                 \/ inst[i].outcome \in TransformerFailures ) =>
                    /\ inst[i].acks = 1 /\ inst[i].naks = 0
                    /\ PublishedBy(i) = {}
                    /\ mappings = inst[i].before

\* a put rejected by the transformer was acked while the store held an entry
C2_Witness ==
    \E i \in DOMAIN inst :
        /\ inst[i].pc = "done" /\ IsPut(i)
        /\ inst[i].outcome \in {"convert_error", "empty_uid", "orphan"}
        /\ inst[i].acks = 1
        /\ mappings # {}

\* the message at position k is the indexing message of a create/update whose
\* publish call went on to publish the access-control message: the put was
\* processed successfully (an accepted record has a parent reference, so its
\* access-control message is not skipped)
SuccessfulPut(k) ==
    /\ published[k].action \in {ActionCreated, ActionUpdated}
    /\ \E j \in (k + 1)..Len(published) :
        /\ published[j].operation = "update_access"
        /\ published[j].nid = published[k].nid
        /\ published[j].attempt = published[k].attempt

\* the message at position k is the indexing message of a delete whose
\* publish call went on to publish the delete_access message
SuccessfulDelete(k) ==
    /\ published[k].action = ActionDeleted
    /\ \E j \in (k + 1)..Len(published) :
        /\ published[j].operation = "delete_access"
        /\ published[j].nid = published[k].nid
        /\ published[j].attempt = published[k].attempt

SameEntity(a, b) ==
    /\ published[a].object_type = published[b].object_type
    /\ published[a].uid = published[b].uid

\* a delete of the entity of message b was published between a and b
DeleteBetween(a, b) ==
    \E j \in (a + 1)..(b - 1) : published[j].action = ActionDeleted /\ SameEntity(j, b)

\* the successful puts and the deletes of the entity of message k before k
Earlier(k) ==
    {j \in 1..(k - 1) :
        SameEntity(j, k) /\ (SuccessfulPut(j) \/ published[j].action = ActionDeleted)}

\* k is the first successful put of its entity, or the first one after a
\* successfully processed delete
FirstOfRun(k) ==
    \/ Earlier(k) = {}
    \/ \E j \in Earlier(k) : SuccessfulDelete(j) /\ \A l \in Earlier(k) : l <= j

\* the created/updated labels of the successful puts of one entity, for the
\* entities in scope: created on the first of a run, updated on the later ones
LabelsInOrder(scope(_)) ==
    \A b \in 1..Len(published) :
        (SuccessfulPut(b) /\ scope(b)) =>
            /\ FirstOfRun(b) => published[b].action = ActionCreated
            /\ \A a \in 1..(b - 1) :
                (SuccessfulPut(a) /\ SameEntity(a, b) /\ ~DeleteBetween(a, b))
                    => published[b].action = ActionUpdated

AnyEntity(k) == TRUE
NoStoreFault(k) == mappingKey(published[k].object_type, published[k].uid) \notin faults

KeyPrefix(i) == SplitN2(inst[i].key)[1]
KeyUid(i) == IF Len(SplitN2(inst[i].key)) = 2 THEN SplitN2(inst[i].key)[2] ELSE ""

\* the delivery instance i has finished is a delete or purge for a key
\* <prefix>.<uid> with a recognised entity prefix
FinishedDelete(i) ==
    /\ inst[i].pc = "done" /\ IsDelete(i)
    /\ Len(SplitN2(inst[i].key)) = 2 /\ EntityOf(KeyPrefix(i)) # ""

\* the messages of the current delivery of instance i, in publication order
DeliveryLog(i) == SelectSeq(published, LAMBDA m : m.nid = inst[i].nid /\ m.attempt = inst[i].attempt)

\* what a delete of entity kind e and uid u publishes: the indexing message
\* with action deleted, then the delete_access message
DeletePair(i, e, u) ==
    <<IndexerMessage(i, e, ActionDeleted, u), AccessMessage(i, "delete_access", e, u)>>

\* C4 as claimed: every delete or purge for a key with a recognised prefix
\* results in exactly one indexing message with action deleted and exactly one
\* delete_access message for the uid.
C4_Original ==
    \A i \in DOMAIN inst :
        FinishedDelete(i) =>
            DeliveryLog(i) = DeletePair(i, EntityOf(KeyPrefix(i)), KeyUid(i))

\* C4 as amended: a processing attempt of a delete or purge for a key
\* <recognised prefix>.<uid> whose publishes do not fail publishes exactly the
\* indexing message with action deleted and the delete_access message for the
\* uid, whether or not the mapping store holds the entity; when a publish
\* fails, the attempt has published at most the indexing message.
C4_DeletePublishesBoth ==
    \A i \in DOMAIN inst :
        FinishedDelete(i) =>
            LET pair == DeletePair(i, EntityOf(KeyPrefix(i)), KeyUid(i)) IN
            /\ inst[i].pubErr = NilErr => DeliveryLog(i) = pair
            /\ inst[i].pubErr # NilErr => DeliveryLog(i) \in {<<>>, <<pair[1]>>}

\* a delete of an entity the mapping store did not hold published both messages
C4_Witness ==
    \E i \in DOMAIN inst :
        /\ FinishedDelete(i)
        /\ inst[i].pubErr = NilErr
        /\ mappingKey(inst[i].entity, KeyUid(i)) \notin inst[i].before
        /\ Len(DeliveryLog(i)) = 2

\* positions in published of the indexing messages of notification nid, over
\* all its deliveries
IndexingMessagesOf(nid) ==
    {k \in 1..Len(published) : published[k].nid = nid /\ published[k].operation = ""}

\* instance i has finished the second delivery of a notification, and this
\* time both publishes succeeded; the first delivery was nakked, which only a
\* transient publish failure brings about
RetrySucceeded(i) ==
    /\ inst[i].pc = "done" /\ inst[i].attempt = 2
    /\ inst[i].outcome = "valid" /\ inst[i].pubErr = NilErr
    /\ inst[i].acks = 1

\* C5: a notification whose first processing attempt hit a transient publish
\* failure and whose redelivery was processed successfully has exactly one
\* indexing message published downstream, over both attempts.
C5_OneIndexingMessageAfterRetry ==
    \A i \in DOMAIN inst :
        RetrySucceeded(i) => Cardinality(IndexingMessagesOf(inst[i].nid)) = 1

\* the handler of instance i has returned
Returned(i) == inst[i].pc \in {"ack", "done"}

\* C6: a publish failure makes the handler return should-retry exactly when
\* its text contains timeout, connection, unavailable or deadline; the
\* delivery is then nakked when should-retry was returned and acked when not;
\* the nil error is not transient.
C6_RetryIffIndicator ==
    /\ ~isTransientError(NilErr)
    /\ \A i \in DOMAIN inst :
        (Returned(i) /\ inst[i].pubErr # NilErr) =>
            /\ inst[i].pc = "ack" =>
                (inst[i].shouldRetry <=> HasIndicator(inst[i].pubErr))
            /\ inst[i].pc = "done" =>
                IF inst[i].shouldRetry
                THEN inst[i].naks = 1 /\ inst[i].acks = 0
                ELSE inst[i].acks = 1 /\ inst[i].naks = 0

\* a publish failed on an expired deadline and the delivery was nakked, after
\* a delivery whose publish failed without an indicator and was acked
C6_Witness ==
    \E i \in DOMAIN inst :
        /\ inst[i].pc = "done"
        /\ inst[i].pubErr # NilErr /\ Contains(inst[i].pubErr[1], "deadline")
        /\ inst[i].naks = 1
        /\ \E n \in 1..Len(feed) : n # inst[i].nid /\ feed[n].status = "acked"

\* the lookup of the current delivery failed although the store held the key
GetFailed(i) ==
    /\ inst[i].getErr
    /\ mappingKey(inst[i].entity, inst[i].data.UID) \in inst[i].before

\* the decision the transformation and publish outcomes alone call for
DecisionOf(outcome, pubErr) == outcome = "valid" /\ HasIndicator(pubErr)

\* C7: the should-retry the handler returns is determined by the
\* transformation outcome and the publish outcome; a failed get, put or delete
\* of the mapping store leaves it what it is when the store operation succeeds.
C7_StoreFailureNeverDecides ==
    \A i \in DOMAIN inst :
        Returned(i) =>
            /\ inst[i].pc = "ack" =>
                inst[i].shouldRetry = DecisionOf(inst[i].outcome, inst[i].pubErr)
            /\ (inst[i].storeErr \/ GetFailed(i)) /\ inst[i].pubErr = NilErr
                    => ~inst[i].shouldRetry

\* a delete whose removal of the mapping entry failed was acked
C7_Witness ==
    \E i \in DOMAIN inst :
        /\ inst[i].pc = "done"
        /\ inst[i].storeErr
        /\ inst[i].action = ActionDeleted
        /\ inst[i].acks = 1 /\ inst[i].naks = 0

\* instance i takes the step that looks the mapping key up
Lookup(i) == inst[i].pc = "get" /\ inst'[i].pc = "pubIndex"

\* the indexing messages of the current delivery carry the action the lookup
\* chose, and none is published before the lookup
TagIsTheLookups ==
    \A i \in DOMAIN inst :
        /\ inst[i].pc \in {"kvHandler", "get"} => PublishedBy(i) = {}
        /\ \A k \in PublishedBy(i) :
            published[k].operation = "" => published[k].action = inst[i].action

SuccessfulPublish(i) ==
    <<IndexerMessage(i, inst[i].entity, inst[i].action, inst[i].data.UID),
      AccessMessage(i, IF inst[i].action = ActionDeleted THEN "delete_access"
                       ELSE "update_access", inst[i].entity, inst[i].data.UID)>>

\* instance i, whose publish returned success, makes the change of the mapping
\* store: it adds its key after a create/update and removes it after a delete
StoreChangeBy(i) ==
    LET key == mappingKey(inst[i].entity, inst[i].data.UID) IN
    /\ inst[i].pc = "store" /\ inst'[i].pc = "ack"
    /\ inst[i].outcome = "valid" /\ inst[i].pubErr = NilErr
    /\ DeliveryLog(i) = SuccessfulPublish(i)
    /\ IF inst[i].action = ActionDeleted
       THEN key \in mappings /\ mappings' = mappings \ {key}
       ELSE key \notin mappings /\ mappings' = mappings \cup {key}

\* a finished delivery whose record was rejected or whose publish failed
\* found the store as it leaves it
UnchangedByFailure ==
    \A i \in DOMAIN inst :
        (Returned(i) /\ (inst[i].outcome # "valid" \/ inst[i].pubErr # NilErr))
            => mappings = inst[i].before

\* C9: the mapping store changes only by the write of the entry of a uid
\* after the create/update publish for it returned success, and by the removal
\* of the entry of a uid after the delete publish for it returned success; a
\* rejected record and a failed publish leave the store unchanged.
C9_StoreFollowsPublish ==
    /\ []UnchangedByFailure
    /\ [][mappings' # mappings => \E i \in DOMAIN inst : StoreChangeBy(i)]_vars

\* an entry was written after a successful publish, and a later delivery for
\* the same key failed its publish and left the entry in place
C9_Witness ==
    \E i \in DOMAIN inst :
        /\ inst[i].pc = "done"
        /\ inst[i].outcome = "valid" /\ inst[i].pubErr # NilErr
        /\ mappingKey(inst[i].entity, inst[i].data.UID) \in mappings

\* the record has no link with a resolved committee or project UID
NoResolvedLink(surveyData) ==
    \A k \in 1..Len(surveyData.Committees) :
        /\ surveyData.Committees[k].CommitteeUID = ""
        /\ surveyData.Committees[k].ProjectUID = ""

\* C10: a survey put whose record has no committee link with a resolved
\* committee or project UID is rejected, however many links it has: its
\* processing publishes nothing, leaves the mapping store as it was, and the
\* notification is acked.
C10_OrphanSurveyRejected ==
    \A i \in DOMAIN inst :
        ( /\ inst[i].pc = "done" /\ IsPut(i)
          /\ inst[i].entity = "survey"
          /\ NoResolvedLink(inst[i].data) ) =>
            /\ PublishedBy(i) = {}
            /\ mappings = inst[i].before
            /\ inst[i].acks = 1 /\ inst[i].naks = 0

\* a survey with an uid and two links, none of them resolved, was acked while
\* the store held an entry
C10_Witness ==
    \E i \in DOMAIN inst :
        /\ inst[i].pc = "done" /\ IsPut(i)
        /\ inst[i].entity = "survey"
        /\ inst[i].data.UID # ""
        /\ Len(inst[i].data.Committees) = 2 /\ NoResolvedLink(inst[i].data)
        /\ inst[i].acks = 1
        /\ mappings # {}

\* the text has a "."
HasSeparator(key) == \E k \in 1..Len(key) : SubSeq(key, k, k) = "."

\* the key is the prefix, a ".", and something more
StartsWith(key, prefix) ==
    /\ Len(key) > Len(prefix)
    /\ SubSeq(key, 1, Len(prefix) + 1) = prefix \o "."

\* the key after the prefix and its "."
After(key, prefix) == SubSeq(key, Len(prefix) + 2, Len(key))

\* instance i has returned from the handler of a put for a survey response
\* whose body decoded
ResponsePutReturned(i) ==
    /\ Returned(i) /\ IsPut(i)
    /\ \/ inst[i].key = "itx-survey-responses"
       \/ StartsWith(inst[i].key, "itx-survey-responses")
    /\ inst[i].msg.body.decodes

\* C11: a survey-response put goes to the publisher exactly when the
\* transformed record has a uid and a resolved project UID, whatever became of
\* its committee: a put that goes there has its two messages published unless
\* a publish fails, a put that does not has nothing published.
C11_ResponseNeedsUidAndProject ==
    \A i \in DOMAIN inst :
        ResponsePutReturned(i) =>
            IF inst[i].data.UID # "" /\ inst[i].data.ProjectUID # ""
            THEN \/ inst[i].pubErr # NilErr
                 \/ DeliveryLog(i) = SuccessfulPublish(i)
            ELSE PublishedBy(i) = {} /\ inst[i].pubErr = NilErr /\ ~inst[i].shouldRetry

\* a response whose project resolved and whose committee did not was published
C11_Witness ==
    \E i \in DOMAIN inst :
        /\ ResponsePutReturned(i)
        /\ inst[i].data.ProjectUID # "" /\ inst[i].data.CommitteeUID = ""
        /\ inst[i].data.CommitteeID # ""
        /\ Len(DeliveryLog(i)) = 2

\* a response whose committee resolved and whose project did not was rejected
C11_WitnessRejected ==
    \E i \in DOMAIN inst :
        /\ ResponsePutReturned(i)
        /\ inst[i].data.UID # ""
        /\ inst[i].data.ProjectUID = "" /\ inst[i].data.CommitteeUID # ""
        /\ inst[i].data.ProjectID # ""

\* the publish call of instance i has returned
PublishReturned(i) == inst[i].pc \in {"store", "ack"}

\* C12: PublishSurveyEvent with a create/update action on a survey without a
\* resolved committee or project UID publishes the indexing message and no
\* access-control message and returns success; only a failure of the indexing
\* publish itself makes it return an error, with nothing published.
C12_NoReferencesSkipsAccess ==
    \A i \in DOMAIN inst :
        ( /\ inst[i].entity = "survey" /\ inst[i].action # ActionDeleted
          /\ NoResolvedLink(inst[i].data) ) =>
            /\ \A k \in 1..Len(published) : published[k].operation = ""
            /\ inst[i].pc = "store" =>
                /\ inst[i].pubErr = NilErr
                /\ published =
                     <<IndexerMessage(i, "survey", inst[i].action, inst[i].data.UID)>>
            /\ inst[i].pc = "ack" =>
                inst[i].pubErr # NilErr /\ published = <<>>
            /\ inst[i].pc = "pubAccess" => Len(published) = 1

\* the call returned success for a survey with two unresolved links, with the
\* indexing message published alone
C12_Witness ==
    \E i \in DOMAIN inst :
        /\ inst[i].pc = "store" /\ inst[i].pubErr = NilErr
        /\ inst[i].entity = "survey" /\ inst[i].action = ActionCreated
        /\ Len(inst[i].data.Committees) = 2 /\ NoResolvedLink(inst[i].data)
        /\ Len(published) = 1 /\ published[1].action = ActionCreated

\* the value in the numeric field of the put of instance i, and the integer
\* the transformed record has for it
NumericInput(i) ==
    LET body == inst[i].msg.body IN
    IF Len(body.committees) > 0 /\ body.committees[1].nps_value # JNull
    THEN body.committees[1].nps_value
    ELSE body.nps_value

NumericOutput(i) ==
    LET body == inst[i].msg.body IN
    IF Len(body.committees) > 0 /\ body.committees[1].nps_value # JNull
    THEN inst[i].data.Committees[1].NPSValue
    ELSE inst[i].data.NPSValue

\* the transformation of the put of instance i is over
Transformed(i) == inst[i].pc # "kvHandler" /\ IsPut(i) /\ inst[i].msg.body.decodes

\* C13: an integer n given as a JSON number and n given as its decimal text in
\* a JSON string both transform, and to the integer n; the empty string
\* transforms to 0.
C13_SameIntegerEitherWay ==
    \A i \in DOMAIN inst :
        Transformed(i) =>
            /\ \A n \in IntegerTexts :
                NumericInput(i) \in {JNum(n), JStr(n)} =>
                    /\ inst[i].outcome # "convert_error"
                    /\ NumericOutput(i) = n
            /\ NumericInput(i) = JStr("") =>
                    /\ inst[i].outcome # "convert_error"
                    /\ NumericOutput(i) = "0"

\* the text is a decimal integer: digits, with or without a sign in front
IsDecimalInteger(text) ==
    LET digits == IF Len(text) > 0 /\ SubSeq(text, 1, 1) \in {"+", "-"}
                  THEN SubSeq(text, 2, Len(text)) ELSE text
    IN  Len(digits) > 0 /\ \A k \in 1..Len(digits) : SubSeq(digits, k, k) \in
            {"0", "1", "2", "3", "4", "5", "6", "7", "8", "9"}

NonDecimalString(v) == v.t = "string" /\ v.s # "" /\ ~IsDecimalInteger(v.s)

\* the put of instance i failed in transformation: nothing was published for
\* it, the mapping store is as it was, and once acknowledged it was acked
FailedTransformation(i) ==
    /\ inst[i].outcome = "convert_error"
    /\ PublishedBy(i) = {}
    /\ mappings = inst[i].before
    /\ ~inst[i].shouldRetry
    /\ inst[i].pc \in {"ack", "done"}
    /\ inst[i].pc = "done" => inst[i].acks = 1 /\ inst[i].naks = 0

\* C14 as stated: a numeric field holding a non-empty string that is no decimal
\* integer, or a value that is neither string nor number, fails the put.
C14_Original ==
    \A i \in DOMAIN inst :
        ( /\ Transformed(i)
          /\ \/ NonDecimalString(NumericInput(i))
             \/ NumericInput(i).t \notin {"string", "number"} ) =>
                FailedTransformation(i)

\* C14: a numeric field holding a non-empty string that is no decimal integer,
\* or a value that is neither string, number nor null, fails the put in
\* transformation: nothing is published, no mapping entry is written and the
\* notification is acked; a null converts to 0 and does not fail the put.
C14_NonNumericFailsTransformation ==
    \A i \in DOMAIN inst :
        Transformed(i) =>
            /\ ( \/ NonDecimalString(NumericInput(i))
                 \/ NumericInput(i).t \notin {"string", "number", "null"} ) =>
                    FailedTransformation(i)
            /\ NumericInput(i).t = "null" =>
                    /\ inst[i].outcome # "convert_error"
                    /\ NumericOutput(i) = "0"

\* a put with a boolean in the numeric field of a committee entry was acked
C14_Witness ==
    \E i \in DOMAIN inst :
        /\ inst[i].pc = "done" /\ IsPut(i)
        /\ Len(inst[i].msg.body.committees) > 0
        /\ inst[i].msg.body.committees[1].nps_value = JBool
        /\ inst[i].outcome = "convert_error"
        /\ inst[i].acks = 1

\* the key of the notification instance i has been handed starts with a prefix
\* that is neither of the two recognised ones
UnrecognisedPrefix(i) ==
    /\ inst[i].nid # 0
    /\ \A p \in {"itx-surveys", "itx-survey-responses"} :
            inst[i].key # p /\ ~StartsWith(inst[i].key, p)

\* C15: a put, delete or purge whose key prefix is not a recognised one is
\* acked without a transformation (no identifier resolved), without a read or
\* write of the mapping store and without a published message.
C15_UnrecognisedPrefixSkipped ==
    \A i \in DOMAIN inst :
        UnrecognisedPrefix(i) =>
            /\ inst[i].pc \in {"kvHandler", "ack", "done"}
            /\ inst[i].pc # "kvHandler" =>
                /\ inst[i].entity = "" /\ inst[i].data = NoSurvey
                /\ inst[i].lookups = <<>>
                /\ inst[i].outcome \in {"irrelevant", "bad_json"}
                /\ inst[i].action = "" /\ ~inst[i].getErr /\ ~inst[i].storeErr
                /\ mappings = inst[i].before
                /\ PublishedBy(i) = {}
                /\ ~inst[i].shouldRetry
            /\ inst[i].pc = "done" => inst[i].acks = 1 /\ inst[i].naks = 0

\* a put of a key of another entity type was acked while the mapping store
\* held an entry
C15_Witness ==
    \E i \in DOMAIN inst :
        /\ inst[i].pc = "done" /\ UnrecognisedPrefix(i) /\ IsPut(i)
        /\ inst[i].msg.body.decodes
        /\ inst[i].outcome = "irrelevant" /\ inst[i].acks = 1
        /\ mappings # {}

\* the handling of a delete or purge of instance i is that of the delete of
\* entity kind e with the uid: the delete handler was handed the uid,
\* published for it, and when both publishes succeeded removed its mapping
DeleteHandledFor(i, e, uid) ==
    /\ inst[i].entity = e /\ inst[i].outcome = "valid"
    /\ inst[i].action = ActionDeleted
    /\ inst[i].data.UID = uid
    /\ \E n \in 0..2 : DeliveryLog(i) = SubSeq(DeletePair(i, e, uid), 1, n)
    /\ (inst[i].pc \in {"ack", "done"} /\ inst[i].pubErr = NilErr /\ ~inst[i].storeErr) =>
            /\ DeliveryLog(i) = DeletePair(i, e, uid)
            /\ mappings = inst[i].before \ {mappingKey(e, uid)}

\* C16: a delete and a purge are handled in the same way, which depends on the
\* key only: a key with no separator is skipped; a key with a recognised
\* prefix has its delete handler called with everything after the first
\* separator as uid, later separators included; any other key is skipped.
C16_DeleteAndPurgeByKey ==
    \A i \in DOMAIN inst :
        (IsDelete(i) /\ inst[i].pc # "kvHandler") =>
            IF ~HasSeparator(inst[i].key)
            THEN inst[i].outcome = "bad_key" /\ PublishedBy(i) = {}
            ELSE IF StartsWith(inst[i].key, "itx-surveys")
            THEN DeleteHandledFor(i, "survey", After(inst[i].key, "itx-surveys"))
            ELSE IF StartsWith(inst[i].key, "itx-survey-responses")
            THEN DeleteHandledFor(i, "survey_response",
                                  After(inst[i].key, "itx-survey-responses"))
            ELSE inst[i].outcome = "irrelevant" /\ PublishedBy(i) = {}

\* a purge of a key with two separators published both messages for the uid
\* with the separator in it, and removed the mapping entry of that uid
C16_Witness ==
    \E i \in DOMAIN inst :
        /\ inst[i].pc = "done" /\ inst[i].msg.opHeader = "PURGE"
        /\ inst[i].key = "itx-surveys.s1.v2"
        /\ inst[i].data.UID = "s1.v2"
        /\ Len(DeliveryLog(i)) = 2
        /\ inst[i].before = {"survey.s1.v2"} /\ mappings = {}

\* the Identifier Mapper calls the transformation of instance i made for entry
\* k of the committees array and the kind of identifier
LookupsFor(i, k, kind) ==
    SelectSeq(inst[i].lookups, LAMBDA c : c.link = k /\ c.kind = kind)

\* the UID the transformation is to leave for a legacy identifier: that of
\* the identifier when its own lookup was made and succeeded, else empty
UidAfter(i, k, kind, id) ==
    IF id # "" /\ LookupsFor(i, k, kind) # <<>> /\ LookupsFor(i, k, kind)[1].err = NilErr
    THEN V2Of(id) ELSE ""

\* the put of instance i is one of a survey whose body decodes and whose
\* numeric fields convert
SurveyTransformed(i) ==
    /\ Transformed(i)
    /\ StartsWith(inst[i].key, "itx-surveys")
    /\ ~NonDecimalString(inst[i].msg.body.nps_value)
    /\ inst[i].msg.body.nps_value.t \in {"string", "number", "null"}

\* C17: in the transformation of a survey a failed lookup of a committee or
\* project identifier leaves that UID empty and nothing else: every link is
\* kept with its legacy identifiers, each UID follows its own lookup alone,
\* each non-empty identifier is looked up once, and no error is returned.
C17_FailedLookupEmptiesOnlyItsUid ==
    \A i \in DOMAIN inst :
        SurveyTransformed(i) =>
            LET links == inst[i].msg.body.committees
                out == inst[i].data.Committees
            IN  /\ inst[i].outcome # "convert_error"
                /\ Len(out) = Len(links)
                /\ \A k \in 1..Len(links) :
                    /\ out[k].CommitteeID = links[k].committee_id
                    /\ out[k].ProjectID = links[k].project_id
                    /\ Len(LookupsFor(i, k, "committee"))
                          = (IF links[k].committee_id = "" THEN 0 ELSE 1)
                    /\ Len(LookupsFor(i, k, "project"))
                          = (IF links[k].project_id = "" THEN 0 ELSE 1)
                    /\ out[k].CommitteeUID = UidAfter(i, k, "committee", links[k].committee_id)
                    /\ out[k].ProjectUID = UidAfter(i, k, "project", links[k].project_id)

\* the committee lookup of a link failed and its project lookup succeeded: the
\* link has its two legacy identifiers, no committee UID and its project UID,
\* and the survey was accepted
C17_Witness ==
    \E i \in DOMAIN inst :
        /\ SurveyTransformed(i) /\ inst[i].outcome = "valid"
        /\ Len(inst[i].data.Committees) = 1
        /\ LookupsFor(i, 1, "committee") # <<>>
        /\ LookupsFor(i, 1, "committee")[1].err # NilErr
        /\ inst[i].data.Committees[1].CommitteeID = "c1"
        /\ inst[i].data.Committees[1].CommitteeUID = ""
        /\ inst[i].data.Committees[1].ProjectUID = "v2-p1"

\* how many times x is in the list
Count(list, x) == Cardinality({k \in 1..Len(list) : list[k] = x})

\* the list under a key of a references map, empty when the key is not set
ListUnder(references, key) ==
    IF \E e \in references : e[1] = key
    THEN (CHOOSE e \in references : e[1] = key)[2]
    ELSE <<>>

ResolvedCommittees(surveyData) ==
    {surveyData.Committees[k].CommitteeUID : k \in 1..Len(surveyData.Committees)} \ {""}

ResolvedProjects(surveyData) ==
    {surveyData.Committees[k].ProjectUID : k \in 1..Len(surveyData.Committees)} \ {""}

\* C18: the parent-references list of the indexing message of a survey create
\* or update, and the references map of its access-control message, have
\* every resolved committee UID of the survey once and every resolved project
\* UID once, however many links share a UID.
C18_EachReferenceOnce ==
    \A i \in DOMAIN inst :
        \A k \in PublishedBy(i) :
            (published[k].object_type = "survey" /\ inst[i].action # ActionDeleted) =>
                IF published[k].operation = ""
                THEN /\ \A u \in ResolvedCommittees(inst[i].data) :
                            Count(published[k].parent_refs, "committee:" \o u) = 1
                     /\ \A u \in ResolvedProjects(inst[i].data) :
                            Count(published[k].parent_refs, "project:" \o u) = 1
                ELSE /\ \A u \in ResolvedCommittees(inst[i].data) :
                            Count(ListUnder(published[k].references, "committee"), u) = 1
                     /\ \A u \in ResolvedProjects(inst[i].data) :
                            Count(ListUnder(published[k].references, "project"), u) = 1

\* the values the context carries under a name, whatever the type of the key
Carried(ctx, name) == {p[2] : p \in {q \in ctx : q[1][2] = name}}

\* the header block a message of a caller with this context is to carry
ExpectedHeaders(ctx) ==
    (IF Carried(ctx, "authorization") # {}
     THEN {<<"authorization", v>> : v \in Carried(ctx, "authorization")}
     ELSE {<<"authorization", "Bearer survey-service">>})
    \cup {<<"x-on-behalf-of", v>> : v \in Carried(ctx, "principal")}

\* C19: every published message, an indexing message as well as an
\* update_access or delete_access message, carries a header block with the
\* authorization of the context, or the service's fallback when the context
\* has none, and with on-behalf-of when the context carries a principal.
C19_EveryMessageHasHeaders ==
    \A i \in DOMAIN inst :
        \A k \in PublishedBy(i) : published[k].headers = ExpectedHeaders(inst[i].ctx)

\* C20: once the context of the event processor is cancelled no callback
\* begins with a notification; a callback that is running goes on to its
\* ack or nak.
C20_NoNewNotificationAfterCancel ==
    [][\A i \in DOMAIN inst :
          (processor # "running" /\ inst[i].pc \in {"idle", "done"}) =>
                inst'[i].pc \in {"idle", "done"}]_vars

\* the notification nid is being processed by a callback
BeingProcessed(nid) == \E i \in DOMAIN inst : inst[i].nid = nid /\ InHandler(i)

\* C21: a notification is delivered to the handler at most MaxDeliver = 3
\* times; each delivery but the first follows a negative acknowledgment, and
\* once the third delivery is negatively acknowledged the notification is
\* not delivered or processed again.
C21_AtMostThreeDeliveries ==
    /\ [](\A nid \in 1..Len(feed) :
            /\ feed[nid].deliveries <= 3
            /\ \A i \in DOMAIN inst : inst[i].nid = nid => inst[i].attempt <= 3
            /\ feed[nid].status = "dead" =>
                    feed[nid].deliveries = 3 /\ ~BeingProcessed(nid))
    /\ [][\A nid \in 1..Len(feed) :
            /\ feed'[nid].deliveries # feed[nid].deliveries =>
                    /\ feed[nid].status = "nakked"
                    /\ feed'[nid].deliveries = feed[nid].deliveries + 1
            /\ (feed[nid].status = "nakked" /\ feed[nid].deliveries = 3) => feed'[nid] = feed[nid]
            /\ feed[nid].status = "dead" => feed'[nid] = feed[nid]]_vars

\* the third delivery of a notification was negatively acknowledged
C21_Witness ==
    \E nid \in 1..Len(feed) :
        /\ feed[nid].deliveries = 3 /\ feed[nid].status = "dead"
        /\ \E i \in DOMAIN inst :
            inst[i].nid = nid /\ inst[i].pc = "done" /\ inst[i].naks = 1 /\ inst[i].attempt = 3

\* C22: a lookup of the Identifier Mapper returns, with a value or with a
\* failure, within the timeout the mapper is configured with: it is never
\* still waiting, or returned, later than that.
C22_LookupReturnsWithinTimeout ==
    \A i \in DOMAIN inst : inst[i].waited <= inst[i].timeout

\* C28: a lookup that receives an empty reply fails with a validation-type
\* error saying the mapping was not found; one that times out, whose
\* transport fails or whose reply begins with "error: " fails with an
\* unavailable-type error; the two are told apart by GetErrorType, and any
\* other reply is returned as the value with no error.
C28_NotFoundOrUnavailable ==
    \A i \in DOMAIN inst :
        inst[i].pc = "returned" =>
            LET err == inst[i].result.err IN
            IF inst[i].replied /\ inst[i].response = ""
            THEN /\ GetErrorType(err) = "ErrorTypeValidation"
                 /\ Contains(err.text, "not found")
                 /\ inst[i].result.value = ""
            ELSE IF \/ inst[i].cause \in {"timeout", "transport", "cancelled"}
                    \/ /\ inst[i].replied
                       /\ Len(inst[i].response) >= 7
                       /\ SubSeq(inst[i].response, 1, 7) = "error: "
            THEN /\ GetErrorType(err) = "ErrorTypeUnavailable"
                 /\ inst[i].result.value = ""
            ELSE err = NoError /\ inst[i].result.value = inst[i].response

\* the mapping service replied with nothing, and the lookup failed with a
\* validation error
C28_Witness ==
    \E i \in DOMAIN inst :
        /\ inst[i].pc = "returned" /\ inst[i].replied /\ inst[i].response = ""
        /\ inst[i].result.err.type = "ErrorTypeValidation"

\* a lookup the transformation of instance i made failed because the mapping
\* service was unavailable
MapperUnavailable(i) ==
    \E k \in 1..Len(inst[i].lookups) :
        inst[i].lookups[k].err = Err("failed to lookup ID mapping")

\* C23: a put during whose processing the Identifier Mapper was unavailable is
\* treated as a transient failure: the handler returns should-retry, the
\* notification is negatively acknowledged, and it is up for redelivery
\* while it has been delivered fewer than MaxDeliver times.
C23_MapperUnavailableIsRetried ==
    \A i \in DOMAIN inst :
        (IsPut(i) /\ Returned(i) /\ MapperUnavailable(i)) =>
            /\ inst[i].shouldRetry
            /\ inst[i].pc = "done" =>
                /\ inst[i].naks = 1 /\ inst[i].acks = 0
                /\ feed[inst[i].nid].status = AfterNak(inst[i].nid)

\* Stop ran before Start, while Start was blocked, or after Start had failed
CalledInLifecycleState ==
    /\ processor.stop \notin {"notCalled", "consumer"}
    /\ processor.readAt \in {"notCalled", "blocked", "failed"}

\* C24: Stop called before Start, while Start is blocked or after Start
\* failed does not panic and, once it has returned, has returned nil; it
\* halted the consumer exactly when a consume context existed, and it closed
\* the connection.
C24_StopInAnyLifecycleState ==
    CalledInLifecycleState =>
        /\ processor.stop # "panicked"
        /\ processor.stop = "returned" =>
            /\ processor.stopResult = "nil"
            /\ processor.halted <=> (processor.readAt = "blocked")
            /\ processor.halted => processor.consumeCtx = "stopped"
            /\ processor.natsConn = "closed"

\* Stop was called after Start had failed in Consume, with a consumer and no
\* consume context, and returned without halting a consumer
C24_Witness ==
    /\ processor.stop = "returned" /\ processor.readAt = "failed"
    /\ processor.consumer = "set" /\ processor.consumeCtx = "nil"
    /\ ~processor.halted /\ processor.stopResult = "nil"

\* instance i is inside the callback for notification nid
InCallback(i, nid) == inst[i].nid = nid /\ inst[i].pc \notin {"idle", "done"}

\* C25: within one instance the callbacks do not overlap: every notification
\* delivered and not yet acknowledged is the one the instance's callback is
\* working on, and a callback starts only when the previous one has
\* acknowledged (ack or nak) and returned.
C25_CallbacksDoNotOverlap ==
    /\ [](\A nid \in 1..Len(feed) :
            feed[nid].status = "inflight" => \E i \in DOMAIN inst : InCallback(i, nid))
    /\ [][\A i \in DOMAIN inst :
            (inst'[i].pc = "kvHandler" /\ inst[i].pc # "kvHandler") =>
                /\ inst[i].pc \in {"idle", "done"}
                /\ inst[i].pc = "done" => inst[i].acks + inst[i].naks = 1]_vars

\* the callback for a second notification is publishing after the callback for
\* the first one has published and acknowledged
C25_Witness ==
    /\ Len(feed) = 2
    /\ feed[1].status = "acked"
    /\ InCallback(1, 2) /\ inst[1].pc = "pubAccess"
    /\ \E k \in 1..Len(published) : published[k].nid = 1

\* the access-control message expected for the response handed to instance i:
\* its relations and its references, as sets of <<name, list>> pairs
ExpectedRelations(i) ==
    IF inst[i].data.Username = "" THEN {}
    ELSE {<<"writer", <<inst[i].data.Username>>>>, <<"viewer", <<inst[i].data.Username>>>>}

ExpectedReferences(i) ==
    (IF inst[i].data.ProjectUID = "" THEN {} ELSE {<<"project", <<inst[i].data.ProjectUID>>>>})
    \cup (IF inst[i].data.SurveyUID = "" THEN {} ELSE {<<"survey", <<inst[i].data.SurveyUID>>>>})

\* C26: a successful PublishSurveyResponseEvent with a create/update action
\* publishes, after the indexing message, one update_access message for the
\* survey_response whose relations give writer and viewer to the username
\* when it is non-empty and whose references list the resolved project and
\* the survey; it publishes no access-control message exactly when the
\* relations and the references are both empty.
C26_ResponseAccessMessage ==
    \A i \in DOMAIN inst :
        ( /\ inst[i].entity = "survey_response" /\ inst[i].action # ActionDeleted
          /\ inst[i].pc = "store" ) =>
            IF ExpectedRelations(i) = {} /\ ExpectedReferences(i) = {}
            THEN Len(published) = 1 /\ published[1].operation = ""
            ELSE /\ Len(published) = 2
                 /\ published[1].operation = ""
                 /\ published[2].operation = "update_access"
                 /\ published[2].subject = UpdateAccessSubject
                 /\ published[2].object_type = "survey_response"
                 /\ published[2].uid = inst[i].data.UID
                 /\ published[2].relations = ExpectedRelations(i)
                 /\ published[2].references = ExpectedReferences(i)

\* the access-control message of a response with a respondent and neither
\* project nor survey was published, with the two relations and no reference
C26_Witness ==
    \E i \in DOMAIN inst :
        /\ inst[i].entity = "survey_response" /\ inst[i].action = ActionCreated
        /\ inst[i].pc = "store"
        /\ inst[i].data.Username = "bob"
        /\ inst[i].data.ProjectUID = "" /\ inst[i].data.SurveyUID = ""
        /\ Len(published) = 2
        /\ published[2].relations = {<<"writer", <<"bob">>>>, <<"viewer", <<"bob">>>>}
        /\ published[2].references = {}

\* the callback of instance i has finished the put of a survey with a
\* non-empty id and a committee link with both identifiers resolved, which had
\* no mapping entry when the delivery began and whose publish did not fail
SurveyCreated(i) ==
    /\ inst[i].pc = "done" /\ IsPut(i)
    /\ inst[i].entity = "survey"
    /\ inst[i].msg.body.id # ""
    /\ \E k \in 1..Len(inst[i].data.Committees) :
          /\ inst[i].data.Committees[k].CommitteeUID # ""
          /\ inst[i].data.Committees[k].ProjectUID # ""
    /\ ("survey." \o inst[i].msg.body.id) \notin inst[i].before
    /\ inst[i].pubErr = NilErr

\* what the claim promises apart from the mapping entry: the uid is the legacy
\* id, the delivery published one indexing message, created, and one
\* update_access message, and was acknowledged
CreatedAndAcked(i) ==
    /\ inst[i].data.UID = inst[i].msg.body.id
    /\ Cardinality(PublishedBy(i)) = 2
    /\ \E a, b \in PublishedBy(i) :
          /\ a < b
          /\ published[a].operation = "" /\ published[a].action = ActionCreated
          /\ published[a].uid = inst[i].data.UID
          /\ published[b].operation = "update_access"
          /\ published[b].uid = inst[i].data.UID
    /\ inst[i].acks = 1 /\ inst[i].naks = 0
    /\ feed[inst[i].nid].status = "acked"

\* C27 as claimed: such a put yields the uid, the two messages, the
\* acknowledgment and the mapping entry survey.<uid>.
C27_Original ==
    \A i \in DOMAIN inst :
        SurveyCreated(i) =>
            /\ CreatedAndAcked(i)
            /\ ("survey." \o inst[i].data.UID) \in mappings

\* C27 as amended: such a put yields the uid, the two messages and the
\* acknowledgment; the mapping entry survey.<uid> is there exactly when the
\* write to the mapping store did not fail.
C27_SurveyCreated ==
    \A i \in DOMAIN inst :
        SurveyCreated(i) =>
            /\ CreatedAndAcked(i)
            /\ ("survey." \o inst[i].data.UID) \in mappings <=> ~inst[i].storeErr

\* a survey put was created, stored under survey.s1 and acknowledged
C27_Witness ==
    \E i \in DOMAIN inst :
        /\ SurveyCreated(i) /\ ~inst[i].storeErr
        /\ "survey.s1" \in mappings
        /\ Len(published) = 2 /\ published[1].action = ActionCreated

\* the publish call of instance i returned the error of its indexing publish
IndexingFailed(i) ==
    LET text == "failed to send " \o Noun(inst[i].entity) \o " indexer message" IN
    /\ inst[i].pc \in {"ack", "done"}
    /\ inst[i].pubErr # NilErr
    /\ Len(inst[i].pubErr[1]) >= Len(text)
    /\ SubSeq(inst[i].pubErr[1], 1, Len(text)) = text

\* C29: every access-control message (update_access or delete_access) was
\* published after the indexing message of the same publish call, and a
\* publish call whose indexing publish failed published nothing at all.
C29_IndexingBeforeAccess ==
    /\ \A b \in 1..Len(published) :
          published[b].operation # "" =>
              \E a \in 1..(b - 1) :
                  /\ published[a].operation = ""
                  /\ published[a].nid = published[b].nid
                  /\ published[a].attempt = published[b].attempt
                  /\ published[a].uid = published[b].uid
                  /\ \A k \in (a + 1)..(b - 1) : published[k].nid # published[b].nid
    /\ \A i \in DOMAIN inst : IndexingFailed(i) => PublishedBy(i) = {}

\* after a delivery that published its indexing message and then its
\* access-control message, the indexing publish of the next delivery failed
\* and nothing more was published
C29_Witness ==
    \E i \in DOMAIN inst :
        /\ IndexingFailed(i) /\ inst[i].nid = 2
        /\ Len(published) = 2
        /\ published[1].operation = "" /\ published[2].operation # ""
        /\ published[1].nid = 1 /\ published[2].nid = 1

\* the indexing messages published for survey s1, in the order of publication
IndexedS1 == {k \in 1..Len(published) : published[k].operation = "" /\ published[k].uid = "s1"}

\* the last of them is a create or an update
LastIsCreateOrUpdate ==
    \E k \in IndexedS1 :
        /\ \A l \in IndexedS1 : l <= k
        /\ published[k].action \in {ActionCreated, ActionUpdated}

\* C30: with a put and a delete of one survey shared between two instances,
\* once both notifications are acknowledged the mapping entry survey.<uid>
\* exists exactly when the last indexing message published for the uid is a
\* create or an update.
C30_MappingFollowsLastMessage ==
    (\A nid \in 1..Len(feed) : feed[nid].status = "acked") =>
        ("survey.s1" \in mappings <=> LastIsCreateOrUpdate)

\* the put (notification 1) was processed with success, then the delete
\* (notification 2) of its key was: both published their two messages, the
\* put's before the delete's, no store operation failed, both are acknowledged
PutThenDeleteSucceeded ==
    /\ Len(feed) = 2 /\ feed[1].status = "acked" /\ feed[2].status = "acked"
    /\ faults = {}
    /\ \E a, b, c, d \in 1..Len(published) :
          /\ a < b /\ b < c /\ c < d
          /\ published[a].nid = 1 /\ published[a].action \in {ActionCreated, ActionUpdated}
          /\ published[b].nid = 1 /\ published[b].operation = "update_access"
          /\ published[b].attempt = published[a].attempt
          /\ published[c].nid = 2 /\ published[c].action = ActionDeleted
          /\ published[d].nid = 2 /\ published[d].operation = "delete_access"
          /\ published[d].attempt = published[c].attempt
          /\ \A k \in 1..Len(published) : k > d => published[k].nid # 1

\* C31: after a successfully processed put of a key followed by a
\* successfully processed delete of the same key the mapping store holds no
\* entry the put wrote, whatever id the body of the put carried.
C31_DeleteRemovesThePutEntry == PutThenDeleteSucceeded => mappings = {}

HasResolvedParent(i) ==
    IF inst[i].entity = "survey"
    THEN \E k \in 1..Len(inst[i].data.Committees) :
            \/ inst[i].data.Committees[k].CommitteeUID # ""
            \/ inst[i].data.Committees[k].ProjectUID # ""
    ELSE inst[i].data.ProjectUID # ""

\* the handler of a put has passed its record to the publisher
PassedToPublisher(i) ==
    /\ IsPut(i)
    /\ \/ inst[i].pc \in {"pubIndex", "pubAccess", "store"}
       \/ inst[i].pc \in {"ack", "done"} /\ inst[i].outcome = "valid"

\* C33: every create/update the handlers pass to the publisher has a resolved
\* parent reference, and when the publish call returns without error it has
\* published two messages, the indexing message and then an update_access
\* message with references: the skip branch is not taken.
C33_SkipBranchNeverTaken ==
    \A i \in DOMAIN inst :
        PassedToPublisher(i) =>
            /\ HasResolvedParent(i)
            /\ (inst[i].pc \in {"store", "ack", "done"} /\ inst[i].pubErr = NilErr) =>
                  /\ Cardinality(PublishedBy(i)) = 2
                  /\ \E a, b \in PublishedBy(i) :
                        /\ a < b
                        /\ published[a].operation = ""
                        /\ published[b].operation = "update_access"
                        /\ published[b].references # {}

\* the put of a survey response with a resolved project was published: the
\* indexing message and an update_access message naming the project
C33_Witness ==
    \E i \in DOMAIN inst :
        /\ inst[i].pc = "store" /\ IsPut(i) /\ inst[i].entity = "survey_response"
        /\ inst[i].pubErr = NilErr
        /\ Cardinality(PublishedBy(i)) = 2
        /\ \E b \in PublishedBy(i) : <<"project", <<"v2-p1">>>> \in published[b].references

\* the mapping key of the entity instance i is processing
OwnKey(i) ==
    (IF inst[i].entity = "survey" THEN "survey." ELSE "survey_response.") \o inst[i].data.UID

\* the keys of the mapping store a step touched: entries added or removed, and
\* store operations that failed
TouchedKeys ==
    (mappings' \ mappings) \cup (mappings \ mappings') \cup (faults' \ faults)

\* C34: a step of the processing of an event for entity kind K with uid X
\* reads and writes the mapping store under the key K.X alone (survey.X or
\* survey_response.X), and the created/updated label it chooses follows the
\* presence of that key alone, so a survey and a response with one uid do not
\* change each other's label.
C34_OnlyOwnMappingKey ==
    [][ /\ \A key \in TouchedKeys :
              \E i \in DOMAIN inst : inst[i].pc \in {"get", "store"} /\ key = OwnKey(i)
        /\ \A i \in DOMAIN inst :
              (inst[i].pc = "get" /\ inst'[i].pc = "pubIndex") =>
                  /\ inst'[i].action = ActionUpdated => OwnKey(i) \in mappings
                  /\ inst'[i].action = ActionCreated =>
                        (OwnKey(i) \notin mappings \/ inst'[i].getErr) ]_vars

\* a survey and a response with the uid s1 were both put: each has its own
\* entry and each was published as created
C34_Witness ==
    /\ mappings = {"survey.s1", "survey_response.s1"}
    /\ faults = {}
    /\ \E a, b \in 1..Len(published) :
          /\ published[a].object_type = "survey" /\ published[a].action = ActionCreated
          /\ published[b].object_type = "survey_response" /\ published[b].action = ActionCreated
          /\ published[a].uid = "s1" /\ published[b].uid = "s1"
    /\ \A k \in 1..Len(published) : published[k].action # ActionUpdated

\* run has stopped the event processor and shut the HTTP server down
ShutDown ==
    /\ processor.main = "returned"
    /\ processor.stop = "returned"
    /\ processor.http = "closed"

\* C35: when Start has returned an error its goroutine ends, the send of the
\* shutdown signal not blocking it, and run shuts down: it calls Stop, which
\* returns, and shuts the HTTP server down.
C35_StartFailureShutsDown ==
    /\ (processor.start = "failed") ~> (processor.goroutine = "exited")
    /\ (processor.start = "failed") ~> ShutDown

\* Start failed creating the consumer with no interrupt and a healthy HTTP
\* server, and run has shut down
C35_Witness ==
    /\ ShutDown
    /\ processor.start = "failed" /\ processor.consumer = "nil"
    /\ ~processor.quit
    /\ processor.goroutine = "exited"
    /\ processor.readAt = "failed"

\* the text begins with "$KV.v1-objects."
UnderBucket(subject) ==
    /\ Len(subject) >= Len("$KV.v1-objects.")
    /\ SubSeq(subject, 1, Len("$KV.v1-objects.")) = "$KV.v1-objects."

\* C36: the operation the callback gives the handler is delete exactly when
\* the KV-Operation header is DEL, purge exactly when it is PURGE, and put for
\* every other value and for no header; the key is what follows
\* "$KV.v1-objects." in the subject, and empty when the subject is not longer
\* than that prefix; deletes and purges go to the delete handler, everything
\* else to the put handler.
C36_OperationAndKey ==
    \A i \in DOMAIN inst :
        inst[i].nid # 0 =>
            LET h == inst[i].msg.opHeader
                s == inst[i].msg.subject
            IN  /\ inst[i].operation = "KeyValueDelete" <=> h = "DEL"
                /\ inst[i].operation = "KeyValuePurge" <=> h = "PURGE"
                /\ inst[i].operation = "KeyValuePut" <=> h \notin {"DEL", "PURGE"}
                /\ Len(s) <= Len("$KV.v1-objects.") => inst[i].key = ""
                /\ (UnderBucket(s) /\ Len(s) > Len("$KV.v1-objects.")) =>
                      /\ inst[i].key # ""
                      /\ "$KV.v1-objects." \o inst[i].key = s
                /\ inst[i].action = ActionDeleted => h \in {"DEL", "PURGE"}
                /\ inst[i].action \in {ActionCreated, ActionUpdated} => h \notin {"DEL", "PURGE"}

\* a notification whose header is the unrecognised value "del" was processed
\* as the put of itx-surveys.s1 and published as created
C36_Witness ==
    \E i \in DOMAIN inst :
        /\ inst[i].pc = "done" /\ inst[i].msg.opHeader = "del"
        /\ inst[i].operation = "KeyValuePut" /\ inst[i].key = "itx-surveys.s1"
        /\ Len(published) = 2 /\ published[1].action = ActionCreated

====
